---- MODULE Spec2Model ----
(***************************************************************************)
(* A model of the DSA Coach browser extension.                             *)
(*                                                                         *)
(*   - the in-page controller LeetCodeExtractor (src/content.js): the      *)
(*     floating panel, its three submissions, callAI with its relay /      *)
(*     canned-response fallback, the conversation log;                     *)
(*   - the popup controller DSACoachPopup (src/popup.js): its asynchronous *)
(*     initialisation, its submissions, the persisted history record;      *)
(*   - the persisted record of chrome.storage.local, shared by both.       *)
(*                                                                         *)
(* JavaScript is single threaded: every action below is one handler or one *)
(* continuation of an async function, run to its next await.               *)
(***************************************************************************)
EXTENDS Integers, Sequences, FiniteSets, TLC

(***************************************************************************)
(* Bounds of the model.                                                    *)
(***************************************************************************)
\* Submissions the in-page controller accepts in one behaviour.
MaxRequests == 2
\* Calls of addChatMessage in one behaviour of LogSpec.
MaxLogCalls == 63
\* Submissions the popup accepts in one behaviour.
MaxPopRequests == 2
\* Entries the popup's log may reach before the model stops appending.
MaxPopLog == 64
\* Words in the message of an upstream failure.
MaxFailureWords == 2
\* Characters a submitted code may have beyond the relay's limit.
MaxCodeExcess == 2
\* Entries of the history sent with a chat request.
MaxHistory == 8
\* Fragments an answer of the model is made of.
MaxFragments == 3
\* Elements of a page that the title and description selectors may match.
MaxHeadElements == 2
\* Blocks of a page that the examples selector may match.
MaxBlocks == 4
\* Elements of a page that the constraints selector may match.
MaxItems == 2

(***************************************************************************)
(* Program constants.                                                      *)
(***************************************************************************)
\* content.js:890  if (this.conversationHistory.length > 50)
HistoryLimit == 50
\* content.js:891  this.conversationHistory.slice(-40)
HistoryKeep == 40

Null == "null"
\* JavaScript's undefined, as the value of a missing property.
Undefined == "undefined"

(***************************************************************************)
(* Text.  A text is a sequence of one-character strings.                   *)
(***************************************************************************)
WhiteSpace == {" ", "\t", "\n"}

RECURSIVE TrimLeft(_)
TrimLeft(s) ==
    IF s # <<>> /\ Head(s) \in WhiteSpace THEN TrimLeft(Tail(s)) ELSE s

RECURSIVE TrimRight(_)
TrimRight(s) ==
    IF s # <<>> /\ s[Len(s)] \in WhiteSpace
    THEN TrimRight(SubSeq(s, 1, Len(s) - 1))
    ELSE s

\* String.prototype.trim
Trim(s) == TrimRight(TrimLeft(s))

\* A variant of the emptiness test that looks at the text as typed.
NothingTyped(text) == text = <<>>

\* const text = input.value.trim(); if (!text) ...
Blank(text) == Trim(text) = <<>>

\* A variant of the chain that lacks its last replace call, the one for the
\* apostrophe.
EscapeCharButApostrophe(c) ==
    CASE c = "&"  -> <<"&", "a", "m", "p", ";">>
      [] c = "<"  -> <<"&", "l", "t", ";">>
      [] c = ">"  -> <<"&", "g", "t", ";">>
      [] c = "\"" -> <<"&", "q", "u", "o", "t", ";">>
      [] OTHER    -> <<c>>

\* One character of sanitizeText's chain of replace calls.
EscapeChar(c) ==
    CASE c = "&"  -> <<"&", "a", "m", "p", ";">>
      [] c = "<"  -> <<"&", "l", "t", ";">>
      [] c = ">"  -> <<"&", "g", "t", ";">>
      [] c = "\"" -> <<"&", "q", "u", "o", "t", ";">>
      [] c = "'"  -> <<"&", "#", "x", "2", "7", ";">>
      [] OTHER    -> <<c>>

RECURSIVE EscapeAll(_)
EscapeAll(s) ==
    IF s = <<>> THEN <<>>
    ELSE IF Len(s) = 1 THEN EscapeChar(s[1])
    ELSE LET half == Len(s) \div 2
         IN EscapeAll(SubSeq(s, 1, half)) \o EscapeAll(SubSeq(s, half + 1, Len(s)))

\* sanitizeText: '' for a missing text, else the entity encoding, trimmed.
SanitizeText(text) ==
    IF text = <<>> THEN <<>> ELSE Trim(EscapeAll(text))

\* What the user may have typed into an input when a control is used.
Texts == { <<>>, <<" ">>, <<"a">>, <<" ", "a", " ">> }

\* Fixed messages of the program.
CodeRequested == <<"C", "o", "d", "e">>   \* 'Code analysis requested'
RelayReply    == <<"R">>                  \* the relay's response text
MockReply     == <<"M">>                  \* a canned local response
SorryReply    == <<"S">>                  \* 'Sorry, I encountered an error...'

\* A complexity of null, and two complexity objects.
NullComplexity    == [null |-> TRUE]
KnownComplexity   == [time |-> "O(n)", space |-> "O(1)"]
UnknownComplexity == [time |-> "O(?)", space |-> "O(?)"]

(***************************************************************************)
(* State.                                                                  *)
(***************************************************************************)
VARIABLES
    \* ---- the in-page controller, content.js ----
    panel,            \* "none" | "shown": the #dsa-coach-panel element exists
    backendUrl,       \* this.backendUrl: "url" | Null
    probe,            \* testBackendConnection: "pending" | "ok" | "failed"
    disabled,         \* button.disabled of each button of PanelButtons
    reqs,             \* the submissions accepted so far, each with its position
                      \* in callAI: "fetch", "json", "mock" (getMockResponse
                      \* called with no backend), "fallback" (getMockResponse
                      \* called from the catch block), "done" or "failed"
    conversationHistory,  \* this.conversationHistory
    chatContainer,    \* the children of #dsa-chat-container
    responseArea,     \* #dsa-response-area is displayed
    complexityInfo,   \* #dsa-complexity-info is displayed
    toast,            \* the text of the last notice showToast put up, or Null
    appended,         \* history variable: <<request, sender>> of every entry pushed
    clearedAt,        \* history variable: how many submissions had been accepted
                      \* when clearConversation last ran, NeverCleared before
    logCalls,         \* LogSpec: calls of addChatMessage made so far
    \* ---- chrome.storage.local ----
    storage,          \* [conversationHistory, problemUrl], Undefined when unset
    \* ---- the popup controller, popup.js ----
    popup,            \* "closed" | "open"
    tabUrl,           \* URL of the active tab the popup was opened on
    popProblemData,   \* this.problemData: Null | [url |-> ...]
    popProblemPc,     \* loadProblemData: "query" | "send" | "done"
    popHistoryPc,     \* loadConversationHistory: "get" | "restored" | "skipped"
    popHistory,       \* this.conversationHistory
    popChat,          \* the children of #chatContainer
    popChatInput,     \* #chatInputSection is displayed
    popDisabled,      \* button.disabled of analyzeApproach / analyzeCode
    popPending,       \* callAI calls whose 1500 ms timer has not fired
    popAccepted,      \* submissions the popup accepted so far
    popToast,         \* the text of the last toast shown, or Null
    \* ---- the relay's POST /api/analyze handler, backend-gemini.js ----
    relayReq,         \* req.body of the request being handled
    relayPc,          \* "idle" | "received" | "calling" | "responded"
    relayPrompt,      \* the prompt passed to model.generateContent
    modelCalls,       \* calls of model.generateContent made for the request
    relayResponses,   \* the HTTP responses sent for the request
    aiResponse,       \* response.text() of the model's answer
    relayError,       \* the error the catch block caught, or NoError
    \* ---- the scraper, extractProblemData of content.js ----
    document,         \* the elements of the page, in document order
    pageProblemData,  \* this.problemData of the in-page controller
    scrapePc,         \* "idle" | "loaded" | "extracted" (the try block ran to
                      \* its end) | "failed" (the catch block ran)
    \* ---- the content script in its page, content.js ----
    world,            \* the document and the extension's script context in it:
                      \* readyState, whether content.js made its top-level
                      \* declarations, how often it was injected, and the
                      \* extractors (those waiting for DOMContentLoaded among
                      \* them), listeners, observers and buttons there are
    editor,           \* what the host page offers as the user's code
    userCode,         \* this.userCode
    lastDetection,    \* history variable: the last call of getUserCode
    codeInput,        \* the value of #dsa-code-input
    popCodeInput,     \* the value of #codeInput of the popup
    \* ---- the service worker's alarm, background.js ----
    clock,            \* Date.now(), in days
    savedAt           \* history variable: Date.now() at the last
                      \* chrome.storage.local.set of the popup

pageVars == <<panel, backendUrl, probe, disabled, reqs, conversationHistory,
              chatContainer, responseArea, complexityInfo, toast, appended,
              clearedAt>>
popVars  == <<popup, tabUrl, popProblemData, popProblemPc, popHistoryPc,
              popHistory, popChat, popChatInput, popDisabled, popPending,
              popAccepted, popToast>>
relayVars == <<relayReq, relayPc, relayPrompt, modelCalls, relayResponses,
               aiResponse, relayError>>
scrapeVars == <<document, pageProblemData, scrapePc>>
scriptVars == <<world, editor, userCode, lastDetection, codeInput,
               popCodeInput>>
alarmVars == <<clock, savedAt>>
vars == <<pageVars, logCalls, storage, popVars, relayVars, scrapeVars,
          scriptVars, alarmVars>>

\* Nothing was caught by the relay's catch block.
NoError == [none |-> TRUE]

\* No request is being handled by the relay.
RelayIdle ==
    /\ relayReq = [none |-> TRUE]
    /\ relayPc = "idle"
    /\ relayPrompt = <<>>
    /\ modelCalls = 0
    /\ relayResponses = <<>>
    /\ aiResponse = <<>>
    /\ relayError = NoError

\* getUserCode has not been called.
NoDetection == [none |-> TRUE]

\* A document that finished loading, with no script of the extension in it.
FreshWorld(readyState) ==
    [readyState |-> readyState, declared |-> FALSE, injections |-> 0,
     extractors |-> 0, waiting |-> 0, listeners |-> 0, observers |-> 0,
     buttons |-> 0]

\* A page without any editor.
NoEditor == [monaco |-> [absent |-> TRUE], dom |-> <<>>]

\* The content script, the code inputs and the alarm play no part.
ScriptIdle ==
    /\ world = FreshWorld("complete")
    /\ editor = NoEditor
    /\ userCode = <<>>
    /\ lastDetection = NoDetection
    /\ codeInput = <<>>
    /\ popCodeInput = <<>>
    /\ clock = 0
    /\ savedAt = 0

\* The scraper has not run: this.problemData = null.
ScrapeIdle ==
    /\ document = <<>>
    /\ pageProblemData = [null |-> TRUE]
    /\ scrapePc = "idle"

\* A step of the in-page controller: the popup and the persisted record,
\* which content.js never reads or writes, stay as they are.
PopupIdle == UNCHANGED <<logCalls, storage, popVars, relayVars, scrapeVars,
                         scriptVars, alarmVars>>

(***************************************************************************)
(* The in-page controller: src/content.js                                  *)
(***************************************************************************)
\* clearConversation has not run.
NeverCleared == -1

\* The buttons of the panel that submit, in document order, as
\* createCoachPanel builds them.  Handlers are set as properties
\* (button.onclick = ...), so no button carries an onclick attribute.
PanelButtons ==
    << [action |-> "analyzeApproach", onclickAttr |-> {}, primary |-> TRUE,
        spinner |-> TRUE],
       [action |-> "analyzeCode", onclickAttr |-> {}, primary |-> TRUE,
        spinner |-> TRUE],
       [action |-> "sendChatMessage", onclickAttr |-> {}, primary |-> FALSE,
        spinner |-> FALSE] >>

ApproachBtn == 1
CodeBtn == 2
SendBtn == 3

\* document.querySelector(`button[onclick*="${action}"], .dsa-coach-btn-primary`):
\* the first element in document order that matches either selector; 0 if none.
QuerySelector(action) ==
    LET hits == { i \in DOMAIN PanelButtons :
                    action \in PanelButtons[i].onclickAttr
                    \/ PanelButtons[i].primary }
    IN IF hits = {} THEN 0 ELSE CHOOSE i \in hits : \A j \in hits : i <= j

\* setLoading(action, isLoading), on the disabled flags d.
SetLoading(d, action, isLoading) ==
    LET i == QuerySelector(action)
    IN IF i = 0 \/ ~PanelButtons[i].spinner THEN d
       ELSE [d EXCEPT ![i] = isLoading]

\* A variant of the cut that keeps the first n elements: slice(0, n).
SliceFirst(s, n) ==
    IF Len(s) <= n THEN s ELSE SubSeq(s, 1, n)

\* The last n elements of s: Array.prototype.slice(-n).
SliceLast(s, n) ==
    IF Len(s) <= n THEN s ELSE SubSeq(s, Len(s) - n + 1, Len(s))

\* A variant of addChatMessage that records the assistant's messages only.
AddAssistantMessage(s, message, sender, complexity) ==
    IF sender = "user" THEN s
    ELSE [hist |-> Append(s.hist, [message |-> SanitizeText(message),
                                   sender |-> sender,
                                   complexity |-> complexity]),
          dom  |-> Append(s.dom, [sender |-> sender, message |-> message])]

\* addChatMessage(message, sender, complexity) on s = [hist, dom]: one
\* message element appended to the chat container, one entry pushed onto the
\* log, the log cut to its last 40 entries when it exceeds 50.
AddChatMessage(s, message, sender, complexity) ==
    LET shown  == IF sender = "ai" /\ complexity # NullComplexity
                  THEN message ELSE SanitizeText(message)
        pushed == Append(s.hist, [message |-> SanitizeText(message),
                                  sender |-> sender,
                                  complexity |-> complexity])
    IN [hist |-> IF Len(pushed) > HistoryLimit
                 THEN SliceLast(pushed, HistoryKeep) ELSE pushed,
        dom  |-> Append(s.dom, [sender |-> sender, message |-> shown])]

PageLog == [hist |-> conversationHistory, dom |-> chatContainer]

\* The senders of the elements s2 holds beyond the chat container's, as
\* entries of request i for the history variable.
NewlyAppended(i, s2) ==
    [k \in 1..(Len(s2.dom) - Len(chatContainer)) |->
        <<i, s2.dom[Len(chatContainer) + k].sender>>]

\* A variant of callAI that goes to the relay whatever backendUrl holds.
CallAIAlwaysFetches == "fetch"

\* callAI's first step: a fetch to the relay when backendUrl is set,
\* getMockResponse's timer otherwise.
CallAIStart == IF backendUrl # Null THEN "fetch" ELSE "mock"

\* A variant of the catch block that rethrows to the caller.
CallAIRethrow == "rejected"

\* callAI's catch block: the failure is logged, backendUrl is dropped and
\* control falls through to getMockResponse.
CallAICatch == "fallback"

\* What the relay (2xx) and the canned responses carry as complexity.
ReplyComplexity(kind, outcome) ==
    IF outcome = "relay" THEN KnownComplexity
    ELSE IF kind = "chat_followup" THEN NullComplexity ELSE UnknownComplexity

ReplyText(outcome) == IF outcome = "relay" THEN RelayReply ELSE MockReply

\* showComplexityInfo(complexity)
ShowComplexityInfo(complexity) ==
    IF complexity = NullComplexity
       \/ (complexity.time = "O(?)" /\ complexity.space = "O(?)")
    THEN complexityInfo
    ELSE TRUE

Pending(r) == r.phase \in {"fetch", "json", "mock", "fallback"}

\* The continuation of analyzeApproach / analyzeCode / sendChatMessage after
\* `await this.callAI(...)` for request i: with a value ("relay" or "mock")
\* the try block runs on, with "rejected" the catch block; then finally.
Settle(i, outcome) ==
    LET r == reqs[i]
        c == ReplyComplexity(r.kind, outcome)
    IN IF r.kind = "chat_followup"
       THEN LET s2 == IF outcome = "rejected"
                      THEN AddChatMessage(PageLog, SorryReply, "ai", NullComplexity)
                      ELSE AddChatMessage(PageLog, ReplyText(outcome), "ai", c)
            IN /\ conversationHistory' = s2.hist
               /\ chatContainer' = s2.dom
               /\ appended' = appended \o NewlyAppended(i, s2)
               /\ reqs' = [reqs EXCEPT ![i].phase = "done"]
               /\ UNCHANGED <<disabled, responseArea, complexityInfo, toast>>
       ELSE IF outcome = "rejected"
       THEN /\ toast' = IF r.kind = "approach_analysis"
                        THEN "Error analyzing approach. Please try again."
                        ELSE "Error analyzing code. Please try again."
            /\ disabled' = SetLoading(disabled, PanelButtons[r.btn].action, FALSE)
            /\ reqs' = [reqs EXCEPT ![i].phase = "failed"]
            /\ UNCHANGED <<conversationHistory, chatContainer, appended,
                           responseArea, complexityInfo>>
       ELSE LET s1 == AddChatMessage(PageLog, r.userMessage, "user", NullComplexity)
                s2 == AddChatMessage(s1, ReplyText(outcome), "ai", c)
            IN /\ conversationHistory' = s2.hist
               /\ chatContainer' = s2.dom
               /\ appended' = appended \o NewlyAppended(i, s2)
               /\ complexityInfo' = ShowComplexityInfo(c)
               /\ responseArea' = TRUE
               /\ disabled' = SetLoading(disabled, PanelButtons[r.btn].action, FALSE)
               /\ reqs' = [reqs EXCEPT ![i].phase = "done"]
               /\ UNCHANGED toast

\* toggleCoachPanel from the floating button while no panel exists:
\* createCoachPanel, which ends with autoDetectCode and its notice.  (Later
\* clicks only change the panel's style.display: no element is removed and no
\* request is touched, so the panel's visibility is not part of the state.)
CreateCoachPanel ==
    /\ PopupIdle
    /\ UNCHANGED clearedAt
    /\ panel = "none"
    /\ panel' = "shown"
    /\ \E detected \in BOOLEAN :
          toast' = IF detected THEN "Code auto-detected!"
                   ELSE "No code detected. Please paste manually."
    /\ UNCHANGED <<backendUrl, probe, disabled, reqs, conversationHistory,
                   chatContainer, responseArea, complexityInfo, appended>>

\* testBackendConnection resolves: the health probe answered (any status
\* with a JSON body), or it failed / was aborted after 5 s.
TestBackendConnection(ok) ==
    /\ PopupIdle
    /\ UNCHANGED clearedAt
    /\ probe = "pending"
    /\ probe' = IF ok THEN "ok" ELSE "failed"
    /\ backendUrl' = IF ok THEN backendUrl ELSE Null
    /\ UNCHANGED <<panel, disabled, reqs, conversationHistory, chatContainer,
                   responseArea, complexityInfo, toast, appended>>

\* A click on a submit button whose input holds `text`:
\* analyzeApproach / analyzeCode up to `await this.callAI(...)`.
Analyze(btn, kind, emptyNotice, text) ==
    /\ PopupIdle
    /\ UNCHANGED clearedAt
    /\ panel = "shown"
    /\ ~disabled[btn]
    /\ IF Blank(text)
       THEN /\ toast' = emptyNotice
            /\ UNCHANGED <<disabled, reqs>>
       ELSE /\ Len(reqs) < MaxRequests
            /\ disabled' = SetLoading(disabled, PanelButtons[btn].action, TRUE)
            /\ reqs' = Append(reqs, [kind |-> kind, btn |-> btn,
                                     userMessage |->
                                        IF kind = "code_analysis"
                                        THEN CodeRequested ELSE Trim(text),
                                     phase |-> CallAIStart])
            /\ UNCHANGED toast
    /\ UNCHANGED <<panel, backendUrl, probe, conversationHistory, chatContainer,
                   responseArea, complexityInfo, appended>>

AnalyzeApproach(text) ==
    Analyze(ApproachBtn, "approach_analysis",
            "Please describe your approach first", text)

AnalyzeCode(text) ==
    Analyze(CodeBtn, "code_analysis", "Please provide code to analyze", text)

\* sendChatMessage up to `await this.callAI(...)`: the send button or Enter
\* in #dsa-chat-input, which sit inside the response area.
SendChatMessage(text) ==
    /\ PopupIdle
    /\ UNCHANGED clearedAt
    /\ panel = "shown"
    /\ responseArea
    /\ ~disabled[SendBtn]
    /\ IF Blank(text)
       THEN UNCHANGED <<reqs, conversationHistory, chatContainer, appended>>
       ELSE /\ Len(reqs) < MaxRequests
            /\ LET i  == Len(reqs) + 1
                   s2 == AddChatMessage(PageLog, Trim(text), "user", NullComplexity)
               IN /\ conversationHistory' = s2.hist
                  /\ chatContainer' = s2.dom
                  /\ appended' = appended \o NewlyAppended(i, s2)
                  /\ reqs' = Append(reqs, [kind |-> "chat_followup",
                                           btn |-> SendBtn,
                                           userMessage |-> Trim(text),
                                           phase |-> CallAIStart])
    /\ UNCHANGED <<panel, backendUrl, probe, disabled, responseArea,
                   complexityInfo, toast>>

\* callAI: the fetch of request i resolves with a 2xx status.
FetchOk(i) ==
    /\ PopupIdle
    /\ UNCHANGED clearedAt
    /\ reqs[i].phase = "fetch"
    /\ reqs' = [reqs EXCEPT ![i].phase = "json"]
    /\ UNCHANGED <<panel, backendUrl, probe, disabled, conversationHistory,
                   chatContainer, responseArea, complexityInfo, toast, appended>>

\* callAI: the request failed inside the try block: the fetch rejected (network
\* error), the 15 s timer aborted it, the status was not 2xx, or the body was
\* no JSON.  The catch block runs.
CallAIFails(i, cause) ==
    /\ PopupIdle
    /\ UNCHANGED clearedAt
    /\ \/ reqs[i].phase = "fetch" /\ cause \in {"network", "timeout", "status"}
       \/ reqs[i].phase = "json" /\ cause = "body"
    /\ backendUrl' = Null
    /\ IF CallAICatch = "fallback"
       THEN /\ reqs' = [reqs EXCEPT ![i].phase = "fallback"]
            /\ UNCHANGED <<disabled, conversationHistory, chatContainer,
                           responseArea, complexityInfo, toast, appended>>
       ELSE Settle(i, "rejected")
    /\ UNCHANGED <<panel, probe>>

\* callAI returns the relay's data: response.json() resolved.
RelayAnswers(i) ==
    /\ PopupIdle
    /\ UNCHANGED clearedAt
    /\ reqs[i].phase = "json"
    /\ Settle(i, "relay")
    /\ UNCHANGED <<panel, backendUrl, probe>>

\* getMockResponse's timer fires and resolves with a canned response.
MockResponse(i) ==
    /\ PopupIdle
    /\ UNCHANGED clearedAt
    /\ reqs[i].phase \in {"mock", "fallback"}
    /\ Settle(i, "mock")
    /\ UNCHANGED <<panel, backendUrl, probe>>

\* clearConversation, from the Clear Chat button of the footer.
ClearConversation ==
    /\ PopupIdle
    /\ panel = "shown"
    /\ conversationHistory' = <<>>
    /\ chatContainer' = <<>>
    /\ complexityInfo' = FALSE
    /\ responseArea' = FALSE
    /\ toast' = "Conversation cleared"
    /\ clearedAt' = Len(reqs)
    /\ UNCHANGED <<panel, backendUrl, probe, disabled, reqs, appended>>

(***************************************************************************)
(* chrome.storage.local: the persisted record.                             *)
(***************************************************************************)
\* Nothing was ever stored.
EmptyStorage ==
    [historySet |-> FALSE, conversationHistory |-> <<>>, problemUrl |-> Undefined]

ProblemUrls == {"problems/a", "problems/b"}

\* The record a popup session on problem a leaves behind after one approach
\* analysis (addChatMessage of the approach, then of the canned analysis).
LeftByPopup ==
    [historySet |-> TRUE,
     conversationHistory |->
        << [message |-> <<"a">>, sender |-> "user", complexity |-> NullComplexity],
           [message |-> MockReply, sender |-> "ai", complexity |-> UnknownComplexity] >>,
     problemUrl |-> "problems/a"]

(***************************************************************************)
(* The popup controller: src/popup.js                                      *)
(***************************************************************************)
\* this.problemData = null
NoProblem == [null |-> TRUE]

\* this.problemData?.url
UrlOf(problemData) ==
    IF problemData = NoProblem THEN Undefined ELSE problemData.url

\* Where the popup may be opened: a tab on one of two problems, or elsewhere.
TabUrls == ProblemUrls \cup {"other"}

PopButtons == {"analyzeApproach", "analyzeCode"}

\* A variant of saveConversationHistory that stores the list alone.
SaveHistoryOnly(st, history, problemData) ==
    [historySet |-> TRUE, conversationHistory |-> history,
     problemUrl |-> st.problemUrl]

\* saveConversationHistory: chrome.storage.local.set({conversationHistory,
\* problemUrl}).  The values are serialised as JSON, which drops a property
\* whose value is undefined: with no problem loaded the stored problemUrl
\* keeps the value it had.
SaveConversationHistory(st, history, problemData) ==
    [historySet |-> TRUE,
     conversationHistory |-> history,
     problemUrl |-> IF UrlOf(problemData) = Undefined
                    THEN st.problemUrl ELSE UrlOf(problemData)]

\* addChatMessage(message, sender, complexity) of the popup, on
\* s = [hist, dom, store]: one element appended to #chatContainer, one entry
\* pushed onto the log, the log saved.  (The entry's timestamp is left out.)
PopAddChatMessage(s, message, sender, complexity, problemData) ==
    LET pushed == Append(s.hist, [message |-> message, sender |-> sender,
                                  complexity |-> complexity])
    IN [hist  |-> pushed,
        dom   |-> Append(s.dom, [sender |-> sender, message |-> message]),
        store |-> SaveConversationHistory(s.store, pushed, problemData)]

\* result.conversationHistory.forEach(item => ... this.addChatMessage(...)):
\* forEach visits the elements the array had when it was called.
RECURSIVE RestoreEach(_, _, _)
RestoreEach(s, items, problemData) ==
    IF items = <<>> THEN s
    ELSE LET item == Head(items)
             s1 == IF item.message # <<>>
                   THEN PopAddChatMessage(s, item.message, item.sender,
                                          item.complexity, problemData)
                   ELSE s
         IN RestoreEach(s1, Tail(items), problemData)

\* A variant of the comparison that accepts any stored record.
AnyProblem(problemUrl, problemData) == TRUE

\* result.problemUrl === this.problemData?.url
SameProblem(problemUrl, problemData) == problemUrl = UrlOf(problemData)

\* generateMock...: the canned answer to a text with none of the keywords.
PopReplyComplexity(kind) ==
    IF kind = "chat_followup" THEN NullComplexity ELSE UnknownComplexity

PopLog == [hist |-> popHistory, dom |-> popChat, store |-> storage]

\* A step of the popup: the in-page controller stays as it is.
PageIdle == UNCHANGED <<pageVars, logCalls, relayVars, scrapeVars,
                        scriptVars, alarmVars>>

\* No popup document exists.
PopupClosed ==
    /\ popup = "closed"
    /\ tabUrl = Undefined
    /\ popProblemData = NoProblem
    /\ popProblemPc = "done"
    /\ popHistoryPc = "skipped"
    /\ popHistory = <<>>
    /\ popChat = <<>>
    /\ popChatInput = FALSE
    /\ popDisabled = [b \in PopButtons |-> FALSE]
    /\ popPending = <<>>
    /\ popToast = Null

\* DOMContentLoaded: new DSACoachPopup().  The constructor and init start
\* loadProblemData and loadConversationHistory; both run to their first await.
PopOpen(url) ==
    /\ PageIdle
    /\ popup = "closed"
    /\ popup' = "open"
    /\ tabUrl' = url
    /\ popProblemData' = NoProblem
    /\ popProblemPc' = "query"
    /\ popHistoryPc' = "get"
    /\ popHistory' = <<>>
    /\ UNCHANGED <<storage, popChat, popChatInput, popDisabled, popPending,
                   popAccepted, popToast>>

\* The popup is closed: its document, its timers and its controller are gone.
PopClose ==
    /\ PageIdle
    /\ popup = "open"
    /\ popup' = "closed"
    /\ tabUrl' = Undefined
    /\ popProblemData' = NoProblem
    /\ popProblemPc' = "done"
    /\ popHistoryPc' = "skipped"
    /\ popHistory' = <<>>
    /\ popChat' = <<>>
    /\ popChatInput' = FALSE
    /\ popDisabled' = [b \in PopButtons |-> FALSE]
    /\ popPending' = <<>>
    /\ popToast' = Null
    /\ UNCHANGED <<storage, popAccepted>>

\* loadProblemData: chrome.tabs.query resolves.
TabsQueryReturns ==
    /\ PageIdle
    /\ popup = "open"
    /\ popProblemPc = "query"
    /\ popProblemPc' = IF tabUrl \in ProblemUrls THEN "send" ELSE "done"
    /\ UNCHANGED <<storage, popup, tabUrl, popProblemData, popHistoryPc,
                   popHistory, popChat, popChatInput, popDisabled, popPending,
                   popAccepted, popToast>>

\* loadProblemData: chrome.tabs.sendMessage resolves with the page's problem
\* data ("data"), with nothing ("none"), or rejects ("error").
SendMessageReturns(resp) ==
    /\ PageIdle
    /\ popup = "open"
    /\ popProblemPc = "send"
    /\ popProblemPc' = "done"
    /\ popProblemData' = IF resp = "data" THEN [url |-> tabUrl]
                         ELSE popProblemData
    /\ UNCHANGED <<storage, popup, tabUrl, popHistoryPc, popHistory, popChat,
                   popChatInput, popDisabled, popPending, popAccepted, popToast>>

\* loadConversationHistory: chrome.storage.local.get resolves.
StorageGetReturns ==
    /\ PageIdle
    /\ popup = "open"
    /\ popHistoryPc = "get"
    /\ IF SameProblem(storage.problemUrl, popProblemData) /\ storage.historySet
       THEN /\ 2 * Len(storage.conversationHistory) <= MaxPopLog
            /\ LET items == storage.conversationHistory
                   s2 == RestoreEach([hist |-> items, dom |-> popChat,
                                      store |-> storage],
                                     items, popProblemData)
               IN /\ popHistory' = s2.hist
                  /\ popChat' = s2.dom
                  /\ storage' = s2.store
                  /\ popChatInput' = IF Len(s2.hist) > 0 THEN TRUE
                                     ELSE popChatInput
            /\ popHistoryPc' = "restored"
       ELSE /\ popHistoryPc' = "skipped"
            /\ UNCHANGED <<storage, popHistory, popChat, popChatInput>>
    /\ UNCHANGED <<popup, tabUrl, popProblemData, popProblemPc, popDisabled,
                   popPending, popAccepted, popToast>>

\* setLoading(buttonId, isLoading): document.getElementById(buttonId).
PopSetLoading(d, buttonId, isLoading) == [d EXCEPT ![buttonId] = isLoading]

\* analyzeApproach / analyzeCode of the popup, up to `await this.callAI(...)`.
PopAnalyze(buttonId, kind, emptyNotice, text) ==
    /\ PageIdle
    /\ popup = "open"
    /\ ~popDisabled[buttonId]
    /\ IF Blank(text)
       THEN /\ popToast' = emptyNotice
            /\ UNCHANGED <<popDisabled, popPending, popAccepted>>
       ELSE IF popProblemData = NoProblem
       THEN /\ popToast' = "Problem data not loaded. Please refresh the page."
            /\ UNCHANGED <<popDisabled, popPending, popAccepted>>
       ELSE /\ popAccepted < MaxPopRequests
            /\ popAccepted' = popAccepted + 1
            /\ popDisabled' = PopSetLoading(popDisabled, buttonId, TRUE)
            /\ popPending' = Append(popPending,
                                [kind |-> kind, buttonId |-> buttonId,
                                 userMessage |-> IF kind = "code_analysis"
                                                 THEN CodeRequested
                                                 ELSE Trim(text)])
            /\ UNCHANGED popToast
    /\ UNCHANGED <<storage, popup, tabUrl, popProblemData, popProblemPc,
                   popHistoryPc, popHistory, popChat, popChatInput>>

PopAnalyzeApproach(text) ==
    PopAnalyze("analyzeApproach", "approach_analysis",
               "Please describe your approach first", text)

PopAnalyzeCode(text) ==
    PopAnalyze("analyzeCode", "code_analysis",
               "Please provide code to analyze", text)

\* sendChatMessage of the popup, up to `await this.callAI(...)`; #chatInput
\* and its send button sit in #chatInputSection.
PopSendChatMessage(text) ==
    /\ PageIdle
    /\ popup = "open"
    /\ popChatInput
    /\ IF Blank(text)
       THEN UNCHANGED <<storage, popHistory, popChat, popPending, popAccepted,
                        popToast>>
       ELSE IF popProblemData = NoProblem
       THEN /\ popToast' = "Problem data not loaded. Please refresh the page."
            /\ UNCHANGED <<storage, popHistory, popChat, popPending,
                           popAccepted>>
       ELSE /\ popAccepted < MaxPopRequests
            /\ popAccepted' = popAccepted + 1
            /\ LET s2 == PopAddChatMessage(PopLog, Trim(text), "user",
                                           NullComplexity, popProblemData)
               IN /\ popHistory' = s2.hist
                  /\ popChat' = s2.dom
                  /\ storage' = s2.store
            /\ popPending' = Append(popPending,
                                [kind |-> "chat_followup",
                                 buttonId |-> "sendChatMessage",
                                 userMessage |-> Trim(text)])
            /\ UNCHANGED popToast
    /\ UNCHANGED <<popup, tabUrl, popProblemData, popProblemPc, popHistoryPc,
                   popChatInput, popDisabled>>

\* callAI of the popup: the 1500 ms timer of the oldest pending call fires,
\* callAI returns a canned answer and the submission that awaited it runs on.
PopTimerFires ==
    /\ PageIdle
    /\ popup = "open"
    /\ popPending # <<>>
    /\ LET r == Head(popPending)
           c == PopReplyComplexity(r.kind)
       IN IF r.kind = "chat_followup"
          THEN LET s2 == PopAddChatMessage(PopLog, MockReply, "ai", c,
                                           popProblemData)
               IN /\ popHistory' = s2.hist
                  /\ popChat' = s2.dom
                  /\ storage' = s2.store
                  /\ UNCHANGED <<popChatInput, popDisabled>>
          ELSE LET s1 == PopAddChatMessage(PopLog, r.userMessage, "user",
                                           NullComplexity, popProblemData)
                   s2 == PopAddChatMessage(s1, MockReply, "ai", c,
                                           popProblemData)
               IN /\ popHistory' = s2.hist
                  /\ popChat' = s2.dom
                  /\ storage' = s2.store
                  /\ popChatInput' = TRUE
                  /\ popDisabled' = PopSetLoading(popDisabled, r.buttonId, FALSE)
    /\ popPending' = Tail(popPending)
    /\ UNCHANGED <<popup, tabUrl, popProblemData, popProblemPc, popHistoryPc,
                   popAccepted, popToast>>

\* clearConversation of the popup, from #clearChat.
PopClearConversation ==
    /\ PageIdle
    /\ popup = "open"
    /\ popHistory' = <<>>
    /\ popChat' = <<>>
    /\ popChatInput' = FALSE
    /\ storage' = SaveConversationHistory(storage, <<>>, popProblemData)
    /\ popToast' = "Conversation cleared"
    /\ UNCHANGED <<popup, tabUrl, popProblemData, popProblemPc, popHistoryPc,
                   popDisabled, popPending, popAccepted>>

(***************************************************************************)
(* The relay: POST /api/analyze of backend-gemini.js (src/unnamed/part_000) *)
(***************************************************************************)
\* String.prototype.includes(needle)
Includes(s, needle) ==
    /\ Len(needle) <= Len(s)
    /\ \E i \in 0..(Len(s) - Len(needle)) :
          SubSeq(s, i + 1, i + Len(needle)) = needle

\* String.prototype.substring(0, end)
Substring0(s, end) == IF Len(s) <= end THEN s ELSE SubSeq(s, 1, end)

\* The letters the i flag of a regular expression folds, for the texts used.
Lower(c) ==
    CASE c = "T" -> "t" [] c = "S" -> "s" [] c = "C" -> "c" [] c = "O" -> "o"
      [] OTHER -> c

\* The first position from pos on whose character is not in set.
RECURSIVE SkipIn(_, _, _)
SkipIn(text, pos, set) ==
    IF pos <= Len(text) /\ text[pos] \in set
    THEN SkipIn(text, pos + 1, set) ELSE pos

\* The first position from pos on whose character is in set.
RECURSIVE SkipNotIn(_, _, _)
SkipNotIn(text, pos, set) ==
    IF pos <= Len(text) /\ text[pos] \notin set
    THEN SkipNotIn(text, pos + 1, set) ELSE pos

\* A variant of the O-notation that admits empty parentheses: [O]\([^)]*\)
ONotationMayBeEmpty(text, pos) ==
    IF pos + 1 <= Len(text) /\ Lower(text[pos]) = "o" /\ text[pos + 1] = "("
    THEN LET close == SkipNotIn(text, pos + 2, {")"})
         IN IF close <= Len(text) THEN close + 1 ELSE 0
    ELSE 0

\* [O]\([^)]+\) under the i flag, matched at pos: the position after the
\* match, or 0 when it does not match there.
ONotationAt(text, pos) ==
    IF pos + 1 <= Len(text) /\ Lower(text[pos]) = "o" /\ text[pos + 1] = "("
    THEN LET close == SkipNotIn(text, pos + 2, {")"})
         IN IF close > pos + 2 /\ close <= Len(text) THEN close + 1 ELSE 0
    ELSE 0

Lit(w) == [kind |-> "lit", lit |-> w]
Ws1 == [kind |-> "ws1"]
Sep0 == [kind |-> "sep0"]
ONot == [kind |-> "onot"]

\* One element of a pattern matched at pos: the position after it, or 0.
\*   Lit(w)  the word w, letters folded
\*   Ws1     \s+
\*   Sep0    [:\s]*
\*   ONot    ([O]\([^)]+\))
\* No element can start with a character the element before it may consume,
\* so the greedy match is the only one.
MatchElem(text, pos, e) ==
    IF e.kind = "ws1"
    THEN LET q == SkipIn(text, pos, WhiteSpace) IN IF q > pos THEN q ELSE 0
    ELSE IF e.kind = "sep0" THEN SkipIn(text, pos, WhiteSpace \cup {":"})
    ELSE IF e.kind = "onot" THEN ONotationAt(text, pos)
    ELSE IF /\ pos + Len(e.lit) - 1 <= Len(text)
            /\ \A k \in 1..Len(e.lit) : Lower(text[pos + k - 1]) = e.lit[k]
         THEN pos + Len(e.lit) ELSE 0

\* A pattern matched at pos: the position after the match, or 0.
RECURSIVE MatchAt(_, _, _)
MatchAt(text, pos, pattern) ==
    IF pattern = <<>> THEN pos
    ELSE LET q == MatchElem(text, pos, Head(pattern))
         IN IF q = 0 THEN 0 ELSE MatchAt(text, q, Tail(pattern))

\* text.match(pattern) with the g flag, element 0: the leftmost match, as
\* a text; [none |-> TRUE] when the pattern occurs nowhere.
FirstMatch(text, pattern) ==
    LET starts == { p \in 1..Len(text) : MatchAt(text, p, pattern) # 0 }
    IN IF starts = {} THEN [none |-> TRUE]
       ELSE LET p == CHOOSE p \in starts : \A q \in starts : p <= q
            IN [found |-> SubSeq(text, p, MatchAt(text, p, pattern) - 1)]

WordTime == <<"t", "i", "m", "e">>
WordSpace == <<"s", "p", "a", "c", "e">>
WordComplexity == <<"c", "o", "m", "p", "l", "e", "x", "i", "t", "y">>

\* timePatterns / spacePatterns for the word `what`.
ComplexityPatterns(what) ==
    << << Lit(what), Ws1, Lit(WordComplexity), Sep0, ONot >>,
       << Lit(what), Sep0, ONot >>,
       << ONot, Ws1, Lit(what) >> >>

Sentinel == <<"O", "(", "?", ")">>

\* The loop over the patterns from the k-th on: the O(...) of the first
\* pattern that matches and holds one, else the sentinel.
RECURSIVE TryPatterns(_, _, _)
TryPatterns(text, patterns, k) ==
    IF k > Len(patterns) THEN Sentinel
    ELSE LET match == FirstMatch(text, patterns[k])
         IN IF match = [none |-> TRUE] THEN TryPatterns(text, patterns, k + 1)
            ELSE LET oNotation == FirstMatch(match.found, << ONot >>)
                 IN IF oNotation = [none |-> TRUE]
                    THEN TryPatterns(text, patterns, k + 1)
                    ELSE oNotation.found

\* The least number of a non-empty set of numbers.
Least(set) == CHOOSE n \in set : \A m \in set : n <= m

\* The positions of the text at which the pattern matches.
MatchStarts(text, pattern) ==
    { p \in 1..Len(text) : MatchAt(text, p, pattern) # 0 }

\* A variant of the loop that takes, of the patterns that match, the one whose
\* match begins first in the text.
LeftmostOfPatterns(text, patterns) ==
    LET matching == { k \in DOMAIN patterns : MatchStarts(text, patterns[k]) # {} }
    IN IF matching = {} THEN Sentinel
       ELSE LET k == CHOOSE k \in matching : \A j \in matching :
                        Least(MatchStarts(text, patterns[k]))
                           <= Least(MatchStarts(text, patterns[j]))
            IN FirstMatch(FirstMatch(text, patterns[k]).found, << ONot >>).found

ExtractComplexityLeftmost(text) ==
    [time  |-> LeftmostOfPatterns(text, ComplexityPatterns(WordTime)),
     space |-> LeftmostOfPatterns(text, ComplexityPatterns(WordSpace))]

\* extractComplexity(text)
ExtractComplexity(text) ==
    [time  |-> TryPatterns(text, ComplexityPatterns(WordTime), 1),
     space |-> TryPatterns(text, ComplexityPatterns(WordSpace), 1)]

\* ---- the prompt ----
\* code.length > 2000, code.substring(0, 2000)
CodeLimit == 2000
\* history.slice(-6)
HistoryWindow == 6
\* h.message.substring(0, 200), h.message.length > 200
MessageLimit == 200

\* '\n// ... (code truncated)'
TruncationMarker == <<"\n", "/", "/", " ", ".", ".", ".", " ", "(", "c", "o", "d", "e", " ", "t", "r", "u", "n", "c", "a", "t", "e", "d", ")">>
\* '...'
Ellipsis == <<".", ".", ".">>

\* An undefined property of req.body.
Missing == [missing |-> TRUE]
\* A field of the request body that is present.
Given(value) == [given |-> value]

\* A piece of a template literal: fixed text, or an embedded value.
Fixed(line) == [lit |-> line]
Embedded(value) == [value |-> value]

\* The instructions of the three templates that tell the model not to give
\* the solution away.
NoSolutionInstructions ==
    { "without giving a full solution.",
      "do not reveal the full solution.",
      "without giving a complete solution.",
      "avoid giving direct solutions." }

\* problem?.description || ''
DescriptionOf(problem) ==
    IF problem.description = Missing THEN <<>> ELSE problem.description.given

\* The approach_analysis template.
ApproachPrompt(problem, approach) ==
    << Fixed("You are an expert DSA coach. Analyze the user's approach for the following problem."),
       Fixed("Problem Title:"), Embedded(problem.title),
       Fixed("Problem Description (truncated as provided by the client):"),
       Embedded(DescriptionOf(problem)),
       Fixed("User Approach:"), Embedded(approach),
       Fixed("Output a structured, concise response WITHOUT any markdown bullets or asterisks. Use clear section headings and short paragraphs. Include:"),
       Fixed("1) Logic Flow: Summarize 2) Complexity: Time and Space 3) Edge Cases: List 4) Optimization: Concrete"),
       Fixed("5) Next Questions: 2-3 guiding questions tailored to this problem that nudge the user to think deeper"),
       Fixed("without giving a full solution."),
       Fixed("Be specific to the problem and the approach, avoid generic advice, and"),
       Fixed("do not reveal the full solution.") >>

\* A variant of the truncation that cuts at the limit or above it.
TruncatedFromLimit(code) ==
    IF Len(code) >= CodeLimit
    THEN Substring0(code, CodeLimit) \o TruncationMarker ELSE code

\* const truncatedCode = code.length > 2000 ? code.substring(0, 2000) + marker : code
TruncatedCode(code) ==
    IF Len(code) > CodeLimit
    THEN Substring0(code, CodeLimit) \o TruncationMarker ELSE code

\* The code_analysis template.
CodePrompt(problem, code) ==
    << Fixed("You are a senior DSA mentor. Review the user's code for the given problem and produce a well-structured response with no markdown bullets or asterisks."),
       Fixed("Problem Title:"), Embedded(problem.title),
       Fixed("Problem Description (truncated as provided by the client):"),
       Embedded(DescriptionOf(problem)),
       Fixed("User Code (may be truncated):"), Embedded(TruncatedCode(code)),
       Fixed("Your response must be concise and structured with these sections:"),
       Fixed("1) Logic Flow: Describe 2) Complexity: Provide 3) Edge Cases: Enumerate 4) Optimization: Provide"),
       Fixed("5) Next Questions: Ask 2-3 targeted questions to guide the user toward improvements"),
       Fixed("without giving a complete solution."),
       Fixed("Tailor everything to the provided problem and code. Avoid generic advice and do not use bullet characters.") >>

\* A variant of the window that takes the oldest entries: slice(0, n).
OldestMessages(history) ==
    [i \in 1..(IF Len(history) <= HistoryWindow THEN Len(history)
               ELSE HistoryWindow) |->
        LET h == history[i]
        IN [label |-> IF h.sender = "user" THEN "Student" ELSE "Coach",
            text  |-> Substring0(h.message, MessageLimit)
                      \o (IF Len(h.message) > MessageLimit
                          THEN Ellipsis ELSE <<>>)]]

\* history.slice(-6).map(h => `${label}: ${h.message.substring(0, 200)}${...}`)
RecentMessages(history) ==
    LET recent == SliceLast(history, HistoryWindow)
    IN [i \in 1..Len(recent) |->
          LET h == recent[i]
          IN [label |-> IF h.sender = "user" THEN "Student" ELSE "Coach",
              text  |-> Substring0(h.message, MessageLimit)
                        \o (IF Len(h.message) > MessageLimit
                            THEN Ellipsis ELSE <<>>)]]

\* The chat_followup template; the recent messages are joined by blank lines.
ChatPrompt(problem, history, message) ==
    << Fixed("You are continuing a DSA coaching conversation about:"),
       Embedded(problem.title),
       Fixed("RECENT CONVERSATION:"),
       [conversation |-> RecentMessages(history)],
       Fixed("STUDENT'S NEW MESSAGE:"), Embedded(message),
       Fixed("YOUR RESPONSE:"),
       Fixed("Continue coaching them thoughtfully. Ask probing questions, provide hints, but"),
       Fixed("avoid giving direct solutions."),
       Fixed("Help them think through the problem step by step."),
       Fixed("Focus on: Keep it conversational and supportive!") >>

\* The message of the TypeError a property access on undefined throws.
TypeErrorMessage == <<"C", "a", "n", "n", "o", "t", " ", "r", "e", "a", "d", " ", "p", "r", "o", "p", "e", "r", "t", "i", "e", "s", " ", "o", "f", " ", "u", "n", "d", "e", "f", "i", "n", "e", "d">>

\* The handler from its first line to model.generateContent(prompt): the
\* prompt, or the error thrown while it was built.
BuildPrompt(req) ==
    IF req.type = "approach_analysis"
    THEN IF req.problem = Missing
         THEN [threw |-> TypeErrorMessage]
         ELSE [prompt |-> ApproachPrompt(req.problem, req.approach)]
    ELSE IF req.type = "code_analysis"
    THEN IF req.code = Missing \/ req.problem = Missing
         THEN [threw |-> TypeErrorMessage]
         ELSE [prompt |-> CodePrompt(req.problem, req.code.given)]
    ELSE IF req.type = "chat_followup"
    THEN IF req.history = Missing \/ req.problem = Missing
         THEN [threw |-> TypeErrorMessage]
         ELSE [prompt |-> ChatPrompt(req.problem, req.history.given, req.message)]
    ELSE [prompt |-> <<>>]

\* ---- the responses ----
\* The fixed texts of the error responses.
ApiKeyMessage == "Please check your GEMINI_API_KEY in the .env file"
RateLimitMessage == "Free tier: 15 requests/minute. Please wait a moment."
RateLimitFallback == "I'm temporarily unavailable due to rate limits. Can you describe your approach step by step while we wait?"
ServiceErrorFallback == "I'm having technical difficulties. Try describing your approach in more detail - what data structure are you considering?"

ApiKeyNeedle == <<"A", "P", "I", " ", "k", "e", "y">>
QuotaNeedle == <<"q", "u", "o", "t", "a">>

\* A variant of the catch block that tests for "quota" first.
QuotaFirstResponse(message) ==
    IF Includes(message, QuotaNeedle)
    THEN [status |-> 429, error |-> "Rate limit exceeded",
          message |-> Fixed(RateLimitMessage),
          fallback |-> Fixed(RateLimitFallback)]
    ELSE IF Includes(message, ApiKeyNeedle)
    THEN [status |-> 401, error |-> "Invalid API key",
          message |-> Fixed(ApiKeyMessage),
          fallback |-> Missing]
    ELSE [status |-> 500, error |-> "AI service error",
          message |-> Embedded(message),
          fallback |-> Fixed(ServiceErrorFallback)]

\* The catch block of the handler: the response for a failure whose
\* error.message is `message`.
ErrorResponse(message) ==
    IF Includes(message, ApiKeyNeedle)
    THEN [status |-> 401, error |-> "Invalid API key",
          message |-> Fixed(ApiKeyMessage),
          fallback |-> Missing]
    ELSE IF Includes(message, QuotaNeedle)
    THEN [status |-> 429, error |-> "Rate limit exceeded",
          message |-> Fixed(RateLimitMessage),
          fallback |-> Fixed(RateLimitFallback)]
    ELSE [status |-> 500, error |-> "AI service error",
          message |-> Embedded(message),
          fallback |-> Fixed(ServiceErrorFallback)]

\* res.json({response, complexity, model, timestamp})
OkResponse(text) ==
    [status |-> 200, response |-> text, complexity |-> ExtractComplexity(text)]

\* ---- the inputs ----
\* The words failure messages are made of: the two needles, the same words
\* in another case, and other text.
FailureWords ==
    { ApiKeyNeedle, QuotaNeedle, <<"a", "p", "i", " ", "k", "e", "y">>, <<"Q", "u", "o", "t", "a">>, <<"x">>, <<" ">> }

\* The concatenations of at most n words.
RECURSIVE Phrases(_, _)
Phrases(words, n) ==
    IF n = 0 THEN { <<>> }
    ELSE LET shorter == Phrases(words, n - 1)
         IN shorter \cup { p \o w : p \in shorter, w \in words }

FailureMessages == Phrases(FailureWords, MaxFailureWords)

\* Answers of the model the relay may receive.
AiTexts == { <<"T", "i", "m", "e", ":", " ", "O", "(", "n", ")">>, <<"h", "m">> }

Titles == { <<"T", "w", "o", " ", "S", "u", "m">>, <<"A", "<", "B">> }

CodeChars == <<"a", "b", "c", "d", "e", "f", "g">>

\* The characters of a code past the relay's limit.
TailChars == <<"X", "Y", "Z">>

\* A code of n characters whose characters tell neighbouring positions apart
\* and the positions past the limit from those before it.
CodeOfLength(n) ==
    [i \in 1..n |-> IF i > CodeLimit
                    THEN TailChars[(i % Len(TailChars)) + 1]
                    ELSE CodeChars[(i % Len(CodeChars)) + 1]]

CodeLengths ==
    {1, CodeLimit - 1} \cup { CodeLimit + k : k \in 0..MaxCodeExcess }

\* The lengths of the messages of a history: short, at the limit, above it.
MessageLengths == <<3, MessageLimit, MessageLimit + 1>>

\* A history of n entries, user and assistant taking turns; the i-th message
\* is made of the i-th character of CodeChars and k shifts the lengths.
HistoryOf(n, k) ==
    [i \in 1..n |->
        [sender  |-> IF i % 2 = 1 THEN "user" ELSE "ai",
         message |-> [j \in 1..MessageLengths[((i + k) % 3) + 1] |->
                         CodeChars[(i % Len(CodeChars)) + 1]]]]

Problems == { [title |-> t, description |-> d] : t \in Titles, d \in {Missing, Given(<<"d">>)} }

\* The bodies of the requests the relay may receive.
Requests ==
    { [type |-> "approach_analysis", problem |-> pr, approach |-> Given(<<"a">>),
       code |-> Missing, message |-> Missing, history |-> Given(<<>>)] : pr \in Problems }
    \cup
    { [type |-> "code_analysis", problem |-> [title |-> t, description |-> Given(<<"d">>)],
       approach |-> Missing, code |-> Given(CodeOfLength(n)), message |-> Missing,
       history |-> Given(<<>>)] : t \in Titles, n \in CodeLengths }
    \cup
    { [type |-> "chat_followup", problem |-> [title |-> t, description |-> Given(<<"d">>)],
       approach |-> Missing, code |-> Missing, message |-> Given(<<"m">>),
       history |-> Given(HistoryOf(n, k))] : t \in Titles, n \in 0..MaxHistory, k \in 0..2 }
    \cup
    { [type |-> ty, problem |-> Missing, approach |-> Given(<<"a">>),
       code |-> Missing, message |-> Given(<<"m">>), history |-> Missing] :
         ty \in {"approach_analysis", "code_analysis", "chat_followup", "other"} }

\* The fragments answers of the model are made of: the words of the
\* patterns, separators, O-notations with a capital and a small o, and the
\* two halves of an empty or unclosed one.
Fragments ==
    { <<"t", "i", "m", "e">>,
      <<"s", "p", "a", "c", "e">>,
      <<" ">>,
      <<":">>,
      <<" ", "c", "o", "m", "p", "l", "e", "x", "i", "t", "y">>,
      <<"O", "(", "n", ")">>,
      <<"o", "(", "1", ")">>,
      <<"O", "(">>,
      <<")">> }

ExampleWithBoth == <<"T", "i", "m", "e", " ", "C", "o", "m", "p", "l", "e", "x", "i", "t", "y", ":", " ", "O", "(", "n", " ", "l", "o", "g", " ", "n", ")", " ", ".", ".", ".", " ", "S", "p", "a", "c", "e", ":", " ", "O", "(", "1", ")">>
ExampleWithNone == <<"n", "o", " ", "c", "o", "m", "p", "l", "e", "x", "i", "t", "y", " ", "m", "e", "n", "t", "i", "o", "n", "e", "d">>

\* An answer in which the third time pattern matches before the first does,
\* and one in which the second space pattern matches twice.
ExampleSuffixFirst == <<"O", "(", "n", ")", " ", "t", "i", "m", "e", ".", " ", "T", "i", "m", "e", " ", "c", "o", "m", "p", "l", "e", "x", "i", "t", "y", ":", " ", "O", "(", "1", ")">>
ExampleTwice == <<"s", "p", "a", "c", "e", ":", " ", "O", "(", "1", ")", " ", "t", "h", "e", "n", " ", "s", "p", "a", "c", "e", ":", " ", "O", "(", "n", ")">>

\* The answers extractComplexity is applied to.
ComplexityTexts ==
    Phrases(Fragments, MaxFragments)
    \cup { ExampleWithBoth, ExampleWithNone, ExampleSuffixFirst, ExampleTwice }

\* The requests whose answers are examined for complexities.
ExtractRequests ==
    { r \in Requests : /\ r.type = "approach_analysis"
                       /\ r.problem \in Problems
                       /\ r.problem.description = Missing }

\* ---- the handler ----
\* A step of the relay: the extension stays as it is.
RelayFrame == UNCHANGED <<pageVars, logCalls, storage, popVars, scrapeVars,
                          scriptVars, alarmVars>>

\* app.post('/api/analyze') from its first line to the await of
\* model.generateContent(prompt), or into the catch block when building the
\* prompt threw.
RelayHandle ==
    /\ RelayFrame
    /\ relayPc = "received"
    /\ LET built == BuildPrompt(relayReq)
       IN IF "threw" \in DOMAIN built
          THEN /\ relayError' = [message |-> built.threw]
               /\ relayResponses' = Append(relayResponses, ErrorResponse(built.threw))
               /\ relayPc' = "responded"
               /\ UNCHANGED <<relayPrompt, modelCalls>>
          ELSE /\ relayPrompt' = built.prompt
               /\ modelCalls' = modelCalls + 1
               /\ relayPc' = "calling"
               /\ UNCHANGED <<relayResponses, relayError>>
    /\ UNCHANGED <<relayReq, aiResponse>>

\* model.generateContent resolved and response.text() returned `text`:
\* extractComplexity, then res.json.
GenerateContentResolves(text) ==
    /\ RelayFrame
    /\ relayPc = "calling"
    /\ aiResponse' = text
    /\ relayResponses' = Append(relayResponses, OkResponse(text))
    /\ relayPc' = "responded"
    /\ UNCHANGED <<relayReq, relayPrompt, modelCalls, relayError>>

\* A variant of the catch block that calls the model again instead of
\* answering.
GenerateContentRetries(message) ==
    /\ RelayFrame
    /\ relayPc = "calling"
    /\ relayError' = [message |-> message]
    /\ modelCalls' = modelCalls + 1
    /\ UNCHANGED <<relayReq, relayPc, relayPrompt, relayResponses, aiResponse>>

\* model.generateContent rejected, or response.text() threw, with an error
\* whose message is `message`: the catch block.
GenerateContentRejects(message) ==
    /\ RelayFrame
    /\ relayPc = "calling"
    /\ relayError' = [message |-> message]
    /\ relayResponses' = Append(relayResponses, ErrorResponse(message))
    /\ relayPc' = "responded"
    /\ UNCHANGED <<relayReq, relayPrompt, modelCalls, aiResponse>>

(***************************************************************************)
(* The scraper: extractProblemData of content.js.                          *)
(***************************************************************************)
\* An element of the page: its tag, its attributes, what it lies within
\* (tags and attributes of its ancestors) and its textContent.
Element(tag, attrs, within, text) ==
    [tag |-> tag, attrs |-> attrs, within |-> within, text |-> text]

\* querySelector found nothing.
NoElement == [null |-> TRUE]

\* A simple selector: tag, [attribute] or .class, and an ancestor for the
\* descendant combinator; "*" where the selector does not constrain.
Selector(tag, attr, within) == [tag |-> tag, attr |-> attr, within |-> within]

TitleSelectors ==
    << Selector("*", "data-cy=question-title", "*"),
       Selector("h1", "data-cy=question-title", "*"),
       Selector("*", "class=css-v3d350", "*"),
       Selector("h1", "*", "*"),
       Selector("*", "class=question-title", "*") >>

DescSelectors ==
    << Selector("*", "data-key=description-content", "*"),
       Selector("*", "class=content__u3I1", "*"),
       Selector("*", "class=question-content", "*"),
       Selector("*", "data-track-load=description_content", "*") >>

\* 'pre, .example'
ExampleSelectors ==
    { Selector("pre", "*", "*"), Selector("*", "class=example", "*") }

\* 'ul li, .content__u3I1 p, .constraint'
ConstraintSelectors ==
    { Selector("li", "*", "ul"),
      Selector("p", "*", "class=content__u3I1"),
      Selector("*", "class=constraint", "*") }

Matches(el, sel) ==
    /\ sel.tag = "*" \/ el.tag = sel.tag
    /\ sel.attr = "*" \/ sel.attr \in el.attrs
    /\ sel.within = "*" \/ sel.within \in el.within

\* document.querySelector(selector): the first match in document order.
DocumentQuerySelector(doc, sel) ==
    LET hits == { k \in DOMAIN doc : Matches(doc[k], sel) }
    IN IF hits = {} THEN NoElement
       ELSE doc[CHOOSE k \in hits : \A j \in hits : k <= j]

\* document.querySelectorAll(list): the matches of any selector of the list,
\* in document order.
RECURSIVE QuerySelectorAll(_, _)
QuerySelectorAll(doc, sels) ==
    IF doc = <<>> THEN <<>>
    ELSE (IF \E sel \in sels : Matches(Head(doc), sel)
          THEN << Head(doc) >> ELSE <<>>)
         \o QuerySelectorAll(Tail(doc), sels)

\* for (const selector of selectors) { el = querySelector(selector);
\*   if (el && el.textContent.trim()) break; }
\* from the k-th selector on: the value of el after the loop.
RECURSIVE FirstCandidate(_, _, _)
FirstCandidate(doc, selectors, k) ==
    LET el == DocumentQuerySelector(doc, selectors[k])
    IN IF el # NoElement /\ Trim(el.text) # <<>> THEN el
       ELSE IF k = Len(selectors) THEN el
       ELSE FirstCandidate(doc, selectors, k + 1)

ExampleMarkers == { <<"I", "n", "p", "u", "t", ":">>, <<"E", "x", "a", "m", "p", "l", "e">>, <<"O", "u", "t", "p", "u", "t", ":">> }

ExampleMinLength == 10
ExampleMaxLength == 500
ExamplesKept == 3
ConstraintMaxLength == 200
ConstraintsKept == 5
DescriptionLimit == 500

\* The test of the examples loop on the trimmed text of a block.
IsExample(text) ==
    /\ \E marker \in ExampleMarkers : Includes(text, marker)
    /\ Len(text) > ExampleMinLength
    /\ Len(text) < ExampleMaxLength

\* The character U+2264.
LessEqualSign == << "{U+2264}" >>
DigitChars == {"0", "1", "2", "3", "4", "5", "6", "7", "8", "9"}

\* text.match(/\d+.*\d+/): two digits with no line break between them.
HasTwoNumbers(text) ==
    \E i \in 1..Len(text) : \E j \in (i + 1)..Len(text) :
        /\ text[i] \in DigitChars
        /\ text[j] \in DigitChars
        /\ \A k \in (i + 1)..(j - 1) : text[k] # "\n"

\* The test of the constraints loop on the trimmed text of an element.
IsConstraint(text) ==
    /\ \/ Includes(text, LessEqualSign)
       \/ Includes(text, <<"<", "=">>)
       \/ Includes(text, <<"c", "o", "n", "s", "t", "r", "a", "i", "n", "t", "s">>)
       \/ HasTwoNumbers(text)
       \/ Includes(text, <<"l", "e", "n", "g", "t", "h">>)
    /\ Len(text) < ConstraintMaxLength
    /\ ~Includes(text, <<"E", "x", "a", "m", "p", "l", "e">>)

\* elements.forEach(el => { const text = el.textContent.trim();
\*   if (test(text)) list.push(this.sanitizeText(text)); })
RECURSIVE HarvestExamples(_)
HarvestExamples(elements) ==
    IF elements = <<>> THEN <<>>
    ELSE LET text == Trim(Head(elements).text)
         IN (IF IsExample(text) THEN << SanitizeText(text) >> ELSE <<>>)
            \o HarvestExamples(Tail(elements))

RECURSIVE HarvestConstraints(_)
HarvestConstraints(elements) ==
    IF elements = <<>> THEN <<>>
    ELSE LET text == Trim(Head(elements).text)
         IN (IF IsConstraint(text) THEN << SanitizeText(text) >> ELSE <<>>)
            \o HarvestConstraints(Tail(elements))

\* Array.prototype.slice(0, n)
Slice0(s, n) == IF Len(s) <= n THEN s ELSE SubSeq(s, 1, n)

UnknownProblem == <<"U", "n", "k", "n", "o", "w", "n", " ", "P", "r", "o", "b", "l", "e", "m">>
ErrorTitle == <<"E", "r", "r", "o", "r", " ", "e", "x", "t", "r", "a", "c", "t", "i", "n", "g", " ", "p", "r", "o", "b", "l", "e", "m">>
ErrorDescription == <<"C", "o", "u", "l", "d", " ", "n", "o", "t", " ", "e", "x", "t", "r", "a", "c", "t", " ", "p", "r", "o", "b", "l", "e", "m", " ", "d", "e", "t", "a", "i", "l", "s">>

\* window.location.href and Date.now() at the time of the extraction.
Href == "href"
Now == "now"

\* The record the try block assigns to this.problemData.
ScrapedProblem(doc) ==
    LET titleElement == FirstCandidate(doc, TitleSelectors, 1)
        descriptionElement == FirstCandidate(doc, DescSelectors, 1)
        examples == HarvestExamples(QuerySelectorAll(doc, ExampleSelectors))
        constraints == HarvestConstraints(QuerySelectorAll(doc, ConstraintSelectors))
    IN [title       |-> IF titleElement # NoElement
                        THEN SanitizeText(Trim(titleElement.text))
                        ELSE UnknownProblem,
        description |-> IF descriptionElement # NoElement
                        THEN SanitizeText(Substring0(Trim(descriptionElement.text),
                                                     DescriptionLimit))
                        ELSE <<>>,
        examples    |-> Slice0(examples, ExamplesKept),
        constraints |-> Slice0(constraints, ConstraintsKept),
        url         |-> Href,
        timestamp   |-> Now]

\* The record the catch block assigns to this.problemData.
PlaceholderProblem ==
    [title       |-> ErrorTitle,
     description |-> ErrorDescription,
     examples    |-> <<>>,
     constraints |-> <<>>,
     url         |-> Href,
     timestamp   |-> Now]

\* ---- the pages ----
\* The text that begins with prefix and is filled with dots to n characters.
FilledTo(prefix, n) ==
    [i \in 1..n |-> IF i <= Len(prefix) THEN prefix[i] ELSE "."]

\* Elements the title and description selectors may match.
HeadElements ==
    { Element("h1", {"data-cy=question-title"}, {}, <<"T", "w", "o", " ", "S", "u", "m">>),
      Element("h1", {}, {}, <<" ">>),
      Element("span", {"data-cy=question-title"}, {}, <<>>),
      Element("div", {"class=css-v3d350"}, {}, <<" ", "x", " ">>),
      Element("div", {"class=question-title"}, {}, <<" ">>),
      Element("div", {"class=question-title"}, {}, <<" ", "A", "<", "B", "'", "s", " ", "\"", "&", "\"", " ">>),
      Element("div", {"class=content__u3I1"}, {}, <<"\n">>),
      Element("div", {"class=question-content"}, {}, <<"G", "i", "v", "e", "n", " ", "<", "b", ">", "n", "u", "m", "s", "<", "/", "b", ">", " ", "&", " ", "t", "a", "r", "g", "e", "t">>),
      Element("div", {"data-track-load=description_content"}, {},
              FilledTo(<<"R", "e", "t", "u", "r", "n", " ", "'", "x", "'">>, DescriptionLimit - 1) \o <<"<", ">">>) }

\* Blocks the examples selector may match: with a marker and 10, 11, 499 and
\* 500 characters, without a marker, and an .example with quotes.
Blocks ==
    { Element("pre", {}, {}, <<"I", "n", "p", "u", "t", ":", " ", "1", " ", "2">>),
      Element("pre", {}, {}, <<" ">> \o <<"I", "n", "p", "u", "t", ":", " ", "1", " ", "2", "3">> \o <<"\n">>),
      Element("pre", {}, {}, FilledTo(<<"E", "x", "a", "m", "p", "l", "e">>, ExampleMaxLength - 1)),
      Element("pre", {}, {}, FilledTo(<<"O", "u", "t", "p", "u", "t", ":">>, ExampleMaxLength)),
      Element("pre", {}, {}, <<"x", " ", "=", " ", "[", "1", ",", " ", "2", ",", " ", "3", "]">>),
      Element("div", {"class=example"}, {}, <<"O", "u", "t", "p", "u", "t", ":", " ", "\"", "a", "\"", " ", "<", "b", ">">>) }

\* Elements the constraints selector may match, and a list item outside a
\* list, which it does not.
Items ==
    { Element("li", {}, {"ul"}, <<"1", " ", "<", "=", " ", "n", " ", "<", "=", " ", "1", "0">>),
      Element("li", {}, {"ul"}, <<"E", "x", "a", "m", "p", "l", "e", " ", "1", " ", "2">>),
      Element("p", {}, {"class=content__u3I1"}, <<"l", "e", "n", "g", "t", "h", " ", "o", "f", " ", "s">>),
      Element("div", {"class=constraint"}, {}, FilledTo(<<"0", " ", "1">>, ConstraintMaxLength)),
      Element("li", {}, {}, <<"3", " ", "4">>) }

\* The sequences of at most n elements of a set.
RECURSIVE SeqsUpTo(_, _)
SeqsUpTo(set, n) ==
    IF n = 0 THEN { <<>> }
    ELSE LET shorter == SeqsUpTo(set, n - 1)
         IN shorter \cup { Append(q, e) : q \in shorter, e \in set }

\* The pages the scraper is run on: pages that vary in what the title and
\* description selectors match, in their blocks, and in their items.
Pages ==
    SeqsUpTo(HeadElements, MaxHeadElements)
    \cup { << Element("h1", {}, {}, <<"T", "w", "o", " ", "S", "u", "m">>) >> \o blocks :
             blocks \in SeqsUpTo(Blocks, MaxBlocks) }
    \cup { << Element("h1", {}, {}, <<"T", "w", "o", " ", "S", "u", "m">>) >> \o items :
             items \in SeqsUpTo(Items, MaxItems) }

\* ---- the operation ----
\* A step of the scraper: everything else stays as it is.
ScrapeFrame == UNCHANGED <<pageVars, logCalls, storage, popVars, relayVars,
                           scriptVars, alarmVars>>

\* A variant of extractProblemData that has no catch block: the exception
\* leaves the method and this.problemData stays as it was.
ExtractProblemDataPropagates ==
    /\ ScrapeFrame
    /\ scrapePc = "loaded"
    /\ scrapePc' = "propagated"
    /\ UNCHANGED <<document, pageProblemData>>

\* extractProblemData(), the try block running to its end.
ExtractProblemData ==
    /\ ScrapeFrame
    /\ scrapePc = "loaded"
    /\ pageProblemData' = ScrapedProblem(document)
    /\ scrapePc' = "extracted"
    /\ UNCHANGED document

\* extractProblemData(), a step of the try block throwing: the catch block.
ExtractProblemDataThrows ==
    /\ ScrapeFrame
    /\ scrapePc = "loaded"
    /\ pageProblemData' = PlaceholderProblem
    /\ scrapePc' = "failed"
    /\ UNCHANGED document

(***************************************************************************)
(* Specification of the in-page controller.                                *)
(***************************************************************************)
\* The constructor and setupExtractor: no panel yet, the health probe sent.
PageInit ==
    /\ panel = "none"
    /\ backendUrl = "http://localhost:3000"
    /\ probe = "pending"
    /\ disabled = [i \in DOMAIN PanelButtons |-> FALSE]
    /\ reqs = <<>>
    /\ conversationHistory = <<>>
    /\ chatContainer = <<>>
    /\ responseArea = FALSE
    /\ complexityInfo = FALSE
    /\ toast = Null
    /\ appended = <<>>
    /\ clearedAt = NeverCleared
    /\ logCalls = 0

Init ==
    /\ PageInit
    /\ PopupClosed
    /\ popAccepted = 0
    /\ RelayIdle
    /\ ScriptIdle
    /\ ScrapeIdle
    /\ storage = EmptyStorage

PageNext ==
    \/ CreateCoachPanel
    \/ \E ok \in BOOLEAN : TestBackendConnection(ok)
    \/ \E text \in Texts : AnalyzeApproach(text)
    \/ \E text \in Texts : AnalyzeCode(text)
    \/ \E text \in Texts : SendChatMessage(text)
    \/ \E i \in DOMAIN reqs : FetchOk(i)
    \/ \E i \in DOMAIN reqs :
          \E cause \in {"network", "timeout", "status", "body"} : CallAIFails(i, cause)
    \/ \E i \in DOMAIN reqs : RelayAnswers(i)
    \/ \E i \in DOMAIN reqs : MockResponse(i)
    \/ ClearConversation

Next == PageNext

Spec == Init /\ [][Next]_vars

\* The in-page controller on a page for which an earlier popup session left
\* a persisted record.
StoredInit ==
    /\ PageInit
    /\ PopupClosed
    /\ popAccepted = 0
    /\ RelayIdle
    /\ ScriptIdle
    /\ ScrapeIdle
    /\ storage = LeftByPopup

StoredSpec == StoredInit /\ [][Next]_vars

\* The network and the timers make progress: a fetch settles (the 15 s timer
\* aborts it at the latest), a response body is read or fails, and the timer
\* of getMockResponse fires.
RequestProgress(i) ==
    /\ i \in DOMAIN reqs
    /\ \/ FetchOk(i)
       \/ \E cause \in {"network", "timeout", "status", "body"} : CallAIFails(i, cause)
       \/ RelayAnswers(i)
       \/ MockResponse(i)

\* Some pending request takes a step of callAI.
AnyRequestProgress == \E i \in DOMAIN reqs : RequestProgress(i)

\* The event loop runs every settled promise and every expired timer: a step
\* of callAI that stays possible is eventually taken.
FairSpec == Spec /\ WF_vars(AnyRequestProgress)

(***************************************************************************)
(* The in-page controller from the moment a first approach analysis has    *)
(* been answered by the relay: the response area with the chat input is    *)
(* shown.  reqs and appended keep track of the submissions made from here. *)
(***************************************************************************)
FollowUpInit ==
    /\ panel = "shown"
    /\ backendUrl = "http://localhost:3000"
    /\ probe = "ok"
    /\ disabled = [i \in DOMAIN PanelButtons |-> FALSE]
    /\ reqs = <<>>
    /\ conversationHistory =
          << [message |-> <<"a">>, sender |-> "user", complexity |-> NullComplexity],
             [message |-> RelayReply, sender |-> "ai", complexity |-> KnownComplexity] >>
    /\ chatContainer =
          << [sender |-> "user", message |-> <<"a">>],
             [sender |-> "ai", message |-> RelayReply] >>
    /\ responseArea = TRUE
    /\ complexityInfo = TRUE
    /\ toast = "Code auto-detected!"
    /\ appended = <<>>
    /\ clearedAt = NeverCleared
    /\ logCalls = 0
    /\ PopupClosed
    /\ popAccepted = 0
    /\ RelayIdle
    /\ ScriptIdle
    /\ ScrapeIdle
    /\ storage = EmptyStorage

\* Submissions and the steps of their requests.
FollowUpNext ==
    \/ \E text \in Texts : AnalyzeApproach(text)
    \/ \E text \in Texts : AnalyzeCode(text)
    \/ \E text \in Texts : SendChatMessage(text)
    \/ \E i \in DOMAIN reqs : FetchOk(i)
    \/ \E i \in DOMAIN reqs :
          \E cause \in {"network", "timeout", "status", "body"} : CallAIFails(i, cause)
    \/ \E i \in DOMAIN reqs : RelayAnswers(i)
    \/ \E i \in DOMAIN reqs : MockResponse(i)

FollowUpSpec == FollowUpInit /\ [][FollowUpNext]_vars

(***************************************************************************)
(* Specification of the popup controller.                                  *)
(***************************************************************************)
PopupNext ==
    \/ \E url \in TabUrls : PopOpen(url)
    \/ PopClose
    \/ TabsQueryReturns
    \/ \E resp \in {"data", "none", "error"} : SendMessageReturns(resp)
    \/ StorageGetReturns
    \/ \E text \in Texts : PopAnalyzeApproach(text)
    \/ \E text \in Texts : PopAnalyzeCode(text)
    \/ \E text \in Texts : PopSendChatMessage(text)
    \/ PopTimerFires
    \/ PopClearConversation

PopupSpec == Init /\ [][PopupNext]_vars

(***************************************************************************)
(* Specification of the relay: one request, from its arrival to its        *)
(* response.                                                               *)
(***************************************************************************)
ExtensionInit ==
    /\ PageInit
    /\ PopupClosed
    /\ popAccepted = 0
    /\ storage = EmptyStorage

RelayInit ==
    /\ ExtensionInit
    /\ ScrapeIdle
    /\ ScriptIdle
    /\ relayReq \in Requests
    /\ relayPc = "received"
    /\ relayPrompt = <<>>
    /\ modelCalls = 0
    /\ relayResponses = <<>>
    /\ aiResponse = <<>>
    /\ relayError = NoError

RelayNext ==
    \/ RelayHandle
    \/ \E text \in AiTexts : GenerateContentResolves(text)
    \/ \E message \in FailureMessages : GenerateContentRejects(message)

RelaySpec == RelayInit /\ [][RelayNext]_vars

(***************************************************************************)
(* Specification of the relay's post-processing: a request whose model     *)
(* call resolves with one of ComplexityTexts.                              *)
(***************************************************************************)
ExtractInit ==
    /\ ExtensionInit
    /\ ScrapeIdle
    /\ ScriptIdle
    /\ relayReq \in ExtractRequests
    /\ relayPc = "received"
    /\ relayPrompt = <<>>
    /\ modelCalls = 0
    /\ relayResponses = <<>>
    /\ aiResponse = <<>>
    /\ relayError = NoError

ExtractNext ==
    \/ RelayHandle
    \/ \E text \in ComplexityTexts : GenerateContentResolves(text)

ExtractSpec == ExtractInit /\ [][ExtractNext]_vars

(***************************************************************************)
(* Specification of the scraper: one run of extractProblemData on a page.  *)
(***************************************************************************)
ScrapeInit ==
    /\ ExtensionInit
    /\ RelayIdle
    /\ ScriptIdle
    /\ document \in Pages
    /\ pageProblemData = [null |-> TRUE]
    /\ scrapePc = "loaded"

ScrapeNext ==
    \/ ExtractProblemData
    \/ ExtractProblemDataThrows

ScrapeSpec == ScrapeInit /\ [][ScrapeNext]_vars

(***************************************************************************)
(* Claims about the relay.                                                 *)
(***************************************************************************)
\* The request was answered from the catch block.
RelayFailed == relayPc = "responded" /\ relayError # NoError

\* The last response the relay sent.
RelayAnswer == relayResponses[Len(relayResponses)]

ApiKeyAnswer(r) ==
    r.status = 401 /\ r.message = Fixed(ApiKeyMessage)

RateLimitAnswer(r) ==
    /\ r.status = 429
    /\ r.message = Fixed(RateLimitMessage)
    /\ r.fallback # Missing
    /\ r.fallback.lit # ""

ServiceErrorAnswer(r, m) ==
    /\ r.status = 500
    /\ r.message = Embedded(m)
    /\ r.fallback # Missing
    /\ r.fallback.lit # ""
    /\ r.fallback # Fixed(RateLimitFallback)

\* C11 as stated: a failure is answered with 401 and the API-key message if
\* its message contains "API key", with 429, the rate-limit message and a
\* non-empty fallback if its message contains "quota", and otherwise with 500,
\* the raw message and a different non-empty fallback, for every message, a
\* message with both needles included.
C11_EveryNeedleAnswered ==
    RelayFailed =>
        LET m == relayError.message
            r == RelayAnswer
        IN /\ Includes(m, ApiKeyNeedle) => ApiKeyAnswer(r)
           /\ Includes(m, QuotaNeedle) => RateLimitAnswer(r)
           /\ (~Includes(m, ApiKeyNeedle) /\ ~Includes(m, QuotaNeedle))
                  => ServiceErrorAnswer(r, m)

\* C11, amended: a failure is answered with 401 and the API-key message if its
\* message contains "API key", whether or not it also contains "quota"; with
\* 429, the rate-limit message and a non-empty fallback if it contains "quota"
\* and not "API key"; and otherwise with 500, the raw message and a different
\* non-empty fallback.
C11_FirstNeedleAnswered ==
    RelayFailed =>
        LET m == relayError.message
            r == RelayAnswer
        IN /\ Includes(m, ApiKeyNeedle) => ApiKeyAnswer(r)
           /\ (Includes(m, QuotaNeedle) /\ ~Includes(m, ApiKeyNeedle))
                  => RateLimitAnswer(r)
           /\ (~Includes(m, ApiKeyNeedle) /\ ~Includes(m, QuotaNeedle))
                  => ServiceErrorAnswer(r, m)

\* A failure whose message contains both needles was answered.
C11_Witness ==
    /\ RelayFailed
    /\ Includes(relayError.message, ApiKeyNeedle)
    /\ Includes(relayError.message, QuotaNeedle)
    /\ RelayAnswer.status = 401

\* C12: a request causes at most one call of the model and, once handled,
\* exactly one response, whatever its type; a failed call is not made again and
\* the request is answered with the error response; nothing happens for the
\* request after its response.
C12_OneCallOneResponse ==
    /\ [](/\ modelCalls <= 1
          /\ Len(relayResponses) <= 1
          /\ relayPc = "responded" => Len(relayResponses) = 1
          /\ relayPc # "responded" => Len(relayResponses) = 0
          /\ RelayFailed => RelayAnswer.status \in {401, 429, 500}
          /\ (relayPc = "responded" /\ relayError = NoError)
                 => (modelCalls = 1 /\ RelayAnswer.status = 200))
    /\ [][relayPc # "responded"]_vars

\* The model was called once, the call failed, and the one response is the
\* error response.
C12_Witness ==
    /\ RelayFailed
    /\ modelCalls = 1
    /\ Len(relayResponses) = 1
    /\ RelayAnswer.status = 500
    /\ relayReq.type = "chat_followup"

\* The request was answered with the model's text and its complexities.
RelayAnswered == relayPc = "responded" /\ relayError = NoError

\* One of the three patterns of the word occurs in the text.
PatternOccurs(text, what) ==
    \E k \in 1..3 : \E p \in 1..Len(text) :
        MatchAt(text, p, ComplexityPatterns(what)[k]) # 0

\* s is one of `letters`, "(", at least one character that is not ")", ")".
ONotationForm(s, letters) ==
    /\ Len(s) >= 4
    /\ s[1] \in letters
    /\ s[2] = "("
    /\ s[Len(s)] = ")"
    /\ \A i \in 3..(Len(s) - 1) : s[i] # ")"

\* The field of the word is the sentinel when none of the word's patterns
\* occurs in the text, and else a part of the text that is an O-notation
\* beginning with one of `letters`.
FieldExtracted(text, field, what, letters) ==
    IF PatternOccurs(text, what)
    THEN ONotationForm(field, letters) /\ Includes(text, field)
    ELSE field = Sentinel

ExamplesExtracted(text, c) ==
    /\ text = ExampleWithBoth
           => c = [time |-> <<"O", "(", "n", " ", "l", "o", "g", " ", "n", ")">>, space |-> <<"O", "(", "1", ")">>]
    /\ text = ExampleWithNone => c = [time |-> Sentinel, space |-> Sentinel]

\* C13 as stated: extractComplexity returns a time and a space field for every
\* text; a field is "O(?)" when none of its patterns occurs and else a part of
\* the text made of a capital O, "(", at least one character other than ")",
\* and ")"; the two examples give O(n log n) / O(1) and O(?) / O(?).
C13_CapitalONotation ==
    RelayAnswered =>
        LET c == RelayAnswer.complexity
        IN /\ DOMAIN c = {"time", "space"}
           /\ FieldExtracted(aiResponse, c.time, WordTime, {"O"})
           /\ FieldExtracted(aiResponse, c.space, WordSpace, {"O"})
           /\ ExamplesExtracted(aiResponse, c)

\* C13, amended: as C13 with the letter O of either case: a field is "O(?)"
\* when none of its patterns occurs and else a part of the text made of "O"
\* or "o", "(", at least one character other than ")", and ")".
C13_EitherCaseONotation ==
    RelayAnswered =>
        LET c == RelayAnswer.complexity
        IN /\ DOMAIN c = {"time", "space"}
           /\ FieldExtracted(aiResponse, c.time, WordTime, {"O", "o"})
           /\ FieldExtracted(aiResponse, c.space, WordSpace, {"O", "o"})
           /\ ExamplesExtracted(aiResponse, c)

\* An answer whose time complexity is written with a small o was processed,
\* its space complexity not being mentioned.
C13_Witness ==
    /\ RelayAnswered
    /\ PatternOccurs(aiResponse, WordTime)
    /\ ~PatternOccurs(aiResponse, WordSpace)
    /\ RelayAnswer.complexity.time = <<"o", "(", "1", ")">>
    /\ RelayAnswer.complexity.space = Sentinel

\* The prompt of the request was built and passed to the model.
PromptBuilt == relayPc \in {"calling", "responded"} /\ modelCalls = 1

\* The part of the prompt that follows the fixed line `label`.
PartAfter(prompt, label) ==
    prompt[(CHOOSE k \in DOMAIN prompt : prompt[k] = Fixed(label)) + 1]

\* The characters the prompt embeds, over all its embedded values.
EmbeddedChars(prompt) ==
    UNION { { prompt[k].value[i] : i \in DOMAIN prompt[k].value } :
              k \in { j \in DOMAIN prompt : "value" \in DOMAIN prompt[j] } }

\* C14: the prompt of a code_analysis request embeds the code unchanged and
\* without the truncation marker when the code has at most 2000 characters,
\* and else exactly its first 2000 characters followed by the marker; no
\* character of the code past position 2000 is in the prompt.
C14_CodeTruncated ==
    (PromptBuilt /\ relayReq.type = "code_analysis") =>
        LET code == relayReq.code.given
            part == PartAfter(relayPrompt, "User Code (may be truncated):")
        IN /\ Len(code) <= CodeLimit
                 => /\ part = Embedded(code)
                    /\ ~Includes(part.value, TruncationMarker)
           /\ Len(code) > CodeLimit
                 => /\ part = Embedded(SubSeq(code, 1, CodeLimit) \o TruncationMarker)
                    /\ Len(part.value) = CodeLimit + Len(TruncationMarker)
           /\ EmbeddedChars(relayPrompt)
                  \cap { code[i] : i \in (CodeLimit + 1)..Len(code) } = {}

\* The prompt of a code longer than the limit was built.
C14_Witness ==
    /\ PromptBuilt
    /\ relayReq.type = "code_analysis"
    /\ Len(relayReq.code.given) > CodeLimit
    /\ Includes(PartAfter(relayPrompt, "User Code (may be truncated):").value,
                TruncationMarker)

\* The entries the chat prompt embeds under RECENT CONVERSATION.
ConversationOf(prompt) ==
    prompt[CHOOSE k \in DOMAIN prompt : "conversation" \in DOMAIN prompt[k]].conversation

Min(a, b) == IF a <= b THEN a ELSE b

\* C15: the prompt of a chat_followup request whose history has n entries
\* embeds exactly the last min(n, 6) of them, in their order, each labelled by
\* its sender; a message of at most 200 characters is embedded unchanged and a
\* longer one as its first 200 characters followed by an ellipsis.
C15_HistoryWindowed ==
    (PromptBuilt /\ relayReq.type = "chat_followup") =>
        LET history == relayReq.history.given
            n == Len(history)
            k == Min(n, HistoryWindow)
            embedded == ConversationOf(relayPrompt)
        IN /\ Len(embedded) = k
           /\ \A i \in 1..k :
                 LET h == history[n - k + i]
                     e == embedded[i]
                 IN /\ h.sender = "user" => e.label = "Student"
                    /\ h.sender # "user" => e.label = "Coach"
                    /\ Len(h.message) <= MessageLimit => e.text = h.message
                    /\ Len(h.message) > MessageLimit
                          => e.text = SubSeq(h.message, 1, MessageLimit) \o Ellipsis

\* The prompt of a history longer than the window was built, a message longer
\* than the limit being among the embedded ones.
C15_Witness ==
    /\ PromptBuilt
    /\ relayReq.type = "chat_followup"
    /\ Len(relayReq.history.given) > HistoryWindow
    /\ Len(ConversationOf(relayPrompt)) = HistoryWindow
    /\ \E i \in 1..HistoryWindow :
          Len(ConversationOf(relayPrompt)[i].text) = MessageLimit + Len(Ellipsis)

\* The parts of a prompt.
PartsOf(prompt) == { prompt[k] : k \in DOMAIN prompt }

\* The instructions not to give the solution away that a prompt contains.
InstructionsOf(prompt) ==
    { ins \in NoSolutionInstructions : Fixed(ins) \in PartsOf(prompt) }

\* The instructions the templates of all three request types contain.
CommonInstructions(problem) ==
    InstructionsOf(ApproachPrompt(problem, <<>>))
        \cap InstructionsOf(CodePrompt(problem, <<>>))
        \cap InstructionsOf(ChatPrompt(problem, <<>>, <<>>))

\* The prompt contains the title of the request's problem verbatim and one
\* of the instructions not to give the solution away.
TitleAndInstructionEmbedded ==
    /\ Embedded(relayReq.problem.title) \in PartsOf(relayPrompt)
    /\ InstructionsOf(relayPrompt) # {}

\* C16: for each of the three request types the prompt sent to the model
\* contains the problem title verbatim and the same literal instruction not to
\* reveal a full solution, one wording shared by the three templates.
C16_SameInstruction ==
    (PromptBuilt /\ relayReq.type \in {"approach_analysis", "code_analysis",
                                       "chat_followup"}) =>
        /\ TitleAndInstructionEmbedded
        /\ \E ins \in CommonInstructions(relayReq.problem) :
              ins \in InstructionsOf(relayPrompt)

(***************************************************************************)
(* Claims about the scraper.                                               *)
(***************************************************************************)
\* The selectors of a list whose first match exists and has non-blank text.
NonBlankCandidates(doc, selectors) ==
    { k \in DOMAIN selectors :
        LET el == DocumentQuerySelector(doc, selectors[k])
        IN el # NoElement /\ ~Blank(el.text) }


\* C17: the scraped title is the text of the first title selector, in the
\* listed order, whose element exists and has non-blank text; when there is
\* none (nothing matches, or every match is blank) the title is
\* "Unknown Problem"; and when no description selector has such an element the
\* description is the empty string.
C17_FirstNonBlankOrSentinel ==
    scrapePc = "extracted" =>
        LET titles == NonBlankCandidates(document, TitleSelectors)
            descs == NonBlankCandidates(document, DescSelectors)
        IN /\ IF titles # {}
              THEN pageProblemData.title =
                     SanitizeText(Trim(DocumentQuerySelector(
                         document, TitleSelectors[Least(titles)]).text))
              ELSE pageProblemData.title = UnknownProblem
           /\ descs = {} => pageProblemData.description = <<>>

\* The sanitized texts of the blocks, in document order, that contain a marker
\* and have at least 10 and fewer than 500 characters.
RECURSIVE MarkedBlocks(_)
MarkedBlocks(elements) ==
    IF elements = <<>> THEN <<>>
    ELSE LET text == Trim(Head(elements).text)
         IN (IF /\ \E marker \in ExampleMarkers : Includes(text, marker)
                /\ Len(text) >= ExampleMinLength
                /\ Len(text) < ExampleMaxLength
             THEN << SanitizeText(text) >> ELSE <<>>)
            \o MarkedBlocks(Tail(elements))

\* C18: the examples are exactly the first 3, in document order, of the blocks
\* whose text contains "Input:", "Example" or "Output:" and has at least 10
\* and fewer than 500 characters: a block of exactly 10 characters with a
\* marker is kept, one of exactly 500 is not.
C18_ExamplesFromTenToFiveHundred ==
    scrapePc = "extracted" =>
        pageProblemData.examples =
            Slice0(MarkedBlocks(QuerySelectorAll(document, ExampleSelectors)),
                   ExamplesKept)

\* extractProblemData has returned.
Scraped == scrapePc \in {"extracted", "failed"}

\* The entities sanitizeText writes.
Entities == { <<"&", "a", "m", "p", ";">>, <<"&", "l", "t", ";">>, <<"&", "g", "t", ";">>, <<"&", "q", "u", "o", "t", ";">>, <<"&", "#", "x", "2", "7", ";">> }

RawChars == {"<", ">", "\"", "'"}

\* The text has none of the raw characters and each of its & begins an entity.
Neutral(text) ==
    /\ \A i \in DOMAIN text : text[i] \notin RawChars
    /\ \A i \in DOMAIN text :
          text[i] = "&" =>
              \E e \in Entities :
                  /\ i + Len(e) - 1 <= Len(text)
                  /\ SubSeq(text, i, i + Len(e) - 1) = e

\* The texts a problemData record stores.
StoredTexts(problem) ==
    { problem.title, problem.description }
        \cup { problem.examples[i] : i \in DOMAIN problem.examples }
        \cup { problem.constraints[i] : i \in DOMAIN problem.constraints }

\* C19: every text the scraper stores (title, description, each example, each
\* constraint) contains none of the raw characters < > " ' and every & in it
\* begins one of the entities &amp; &lt; &gt; &quot; &#x27;.
C19_StoredTextsNeutral ==
    Scraped => \A text \in StoredTexts(pageProblemData) : Neutral(text)

\* A title with an apostrophe, quotes, an ampersand and a < was stored.
C19_Witness ==
    /\ scrapePc = "extracted"
    /\ \A e \in {<<"&", "a", "m", "p", ";">>, <<"&", "l", "t", ";">>, <<"&", "q", "u", "o", "t", ";">>, <<"&", "#", "x", "2", "7", ";">>} :
          Includes(pageProblemData.title, e)

ProblemFields ==
    {"title", "description", "examples", "constraints", "url", "timestamp"}

\* C20: extractProblemData lets no exception out: once it has returned,
\* problemData is a complete record (title, description, examples,
\* constraints, url, timestamp), and when a step of the extraction threw it
\* holds the placeholder title and description and no examples or constraints.
C20_AlwaysComplete ==
    /\ scrapePc \in {"loaded", "extracted", "failed"}
    /\ Scraped => DOMAIN pageProblemData = ProblemFields
    /\ scrapePc = "failed" =>
          /\ pageProblemData.title = ErrorTitle
          /\ pageProblemData.description = ErrorDescription
          /\ pageProblemData.examples = <<>>
          /\ pageProblemData.constraints = <<>>

\* The extraction threw on a page that has a title and blocks.
C20_Witness ==
    /\ scrapePc = "failed"
    /\ Len(document) > 1
    /\ pageProblemData = PlaceholderProblem

(***************************************************************************)
(* The conversation log alone: any sequence of addChatMessage and          *)
(* clearConversation calls of the in-page controller.                      *)
(***************************************************************************)
Digits == <<"0", "1", "2", "3", "4", "5", "6", "7", "8", "9">>

\* The text of the n-th message: its number in two digits.
NumText(n) == << Digits[(n \div 10) + 1], Digits[(n % 10) + 1] >>

\* The n-th call: a user message and its reply take turns.
NthEntry(n) ==
    [message |-> NumText(n), sender |-> IF n % 2 = 1 THEN "user" ELSE "ai",
     complexity |-> NullComplexity]

\* One call of addChatMessage.
LogAddChatMessage ==
    /\ panel = "shown"
    /\ logCalls < MaxLogCalls
    /\ logCalls' = logCalls + 1
    /\ LET e  == NthEntry(logCalls + 1)
           s2 == AddChatMessage(PageLog, e.message, e.sender, e.complexity)
       IN /\ conversationHistory' = s2.hist
          /\ chatContainer' = s2.dom
    /\ UNCHANGED <<panel, backendUrl, probe, disabled, reqs, responseArea,
                   complexityInfo, toast, appended, clearedAt, storage,
                   popVars, relayVars, scrapeVars, scriptVars, alarmVars>>

LogNext ==
    \/ CreateCoachPanel
    \/ LogAddChatMessage
    \/ ClearConversation

LogSpec == Init /\ [][LogNext]_vars

(***************************************************************************)
(* Claims about the in-page controller.                                    *)
(***************************************************************************)
PendingReqs == { i \in DOMAIN reqs : Pending(reqs[i]) }

\* The entries request i pushed, in the order it pushed them.
AppendedBy(i) == SelectSeq(appended, LAMBDA e : e[1] = i)

\* C1: at most one request started by callAI is outstanding at any time: while
\* one has not resolved, no user action starts a second one.
C1_AtMostOneOutstanding == Cardinality(PendingReqs) <= 1

\* C2: a submit control (Analyze Approach, Analyze Code, chat send) is
\* disabled exactly while a request it started is awaiting its response.
C2_DisabledExactlyWhileAwaiting ==
    \A b \in DOMAIN PanelButtons :
        disabled[b] <=> (\E i \in PendingReqs : reqs[i].btn = b)

\* C3: every accepted submission that has resolved pushed exactly one user
\* entry and then exactly one assistant entry; a submission still awaiting
\* its response pushed at most its user entry; and the log holds nothing but
\* entries pushed for a submission (the entries pushed since the last Clear).
C3_OneUserThenOneAssistant ==
    /\ \A i \in DOMAIN reqs :
          /\ reqs[i].phase = "done" => AppendedBy(i) = << <<i, "user">>, <<i, "ai">> >>
          /\ Pending(reqs[i]) => AppendedBy(i) \in { <<>>, << <<i, "user">> >> }
    /\ \A k \in DOMAIN appended : appended[k][1] \in DOMAIN reqs
    /\ Len(chatContainer) <= Len(appended)
    /\ Len(conversationHistory) = Len(chatContainer)
    /\ \A k \in DOMAIN chatContainer :
          LET e == appended[Len(appended) - Len(chatContainer) + k]
          IN /\ chatContainer[k].sender = e[2]
             /\ conversationHistory[k].sender = e[2]

\* C3's case: an analysis and a chat message have both been answered.
C3_Witness ==
    \E i, j \in DOMAIN reqs :
        /\ reqs[i].phase = "done" /\ reqs[i].kind = "approach_analysis"
        /\ reqs[j].phase = "done" /\ reqs[j].kind = "chat_followup"

\* How many steps of callAI a request still has before it.
Rank(phase) ==
    CASE phase = "fetch" -> 3
      [] phase = "json" -> 2
      [] phase \in {"mock", "fallback"} -> 1
      [] OTHER -> 0

C5_EmptySubmissionRejected ==
    [][ \A text \in Texts :
          /\ (Trim(text) = <<>>
                /\ (AnalyzeApproach(text) \/ AnalyzeCode(text)
                      \/ SendChatMessage(text)))
             => UNCHANGED <<reqs, backendUrl, conversationHistory, chatContainer,
                            disabled, appended, responseArea>>
          /\ (Trim(text) = <<>>
                /\ (PopAnalyzeApproach(text) \/ PopAnalyzeCode(text)
                      \/ PopSendChatMessage(text)))
             => UNCHANGED <<popPending, popAccepted, popHistory, popChat,
                            popDisabled, popChatInput, storage>> ]_vars

\* C5's case: an empty approach has been submitted and refused.
C5_Witness == toast = "Please describe your approach first"

\* C8: the in-page log never holds more than 50 entries, and an append that
\* would make it 51 leaves exactly the 40 most recent, in their order.
C8_LogBounded ==
    /\ [](Len(conversationHistory) <= HistoryLimit)
    /\ [][ (Len(conversationHistory) = HistoryLimit /\ logCalls' = logCalls + 1)
           => /\ Len(conversationHistory') = HistoryKeep
              /\ \A k \in 1..(HistoryKeep - 1) :
                    conversationHistory'[k] =
                        conversationHistory[HistoryLimit - HistoryKeep + 1 + k]
              /\ conversationHistory'[HistoryKeep] = NthEntry(logCalls') ]_vars

\* C8's case: the 51st entry has been appended and the log was cut.
C8_Witness ==
    /\ logCalls = HistoryLimit + 1
    /\ Len(chatContainer) = HistoryLimit + 1
    /\ Len(conversationHistory) = HistoryKeep

(***************************************************************************)
(* Claims about the persisted record and the popup controller.             *)
(***************************************************************************)
\* C6: after Clear the in-memory conversation log is empty and the persisted
\* record holds an empty list, whether the Clear was issued in the in-page
\* panel or in the popup.
C6_ClearEmptiesLogAndRecord ==
    [][ /\ ClearConversation
           => /\ conversationHistory' = <<>>
              /\ storage'.conversationHistory = <<>>
        /\ PopClearConversation
           => /\ popHistory' = <<>>
              /\ storage'.conversationHistory = <<>> ]_vars

\* C7: loadConversationHistory loads persisted entries into the popup's log
\* only if a problem is loaded in the popup and the persisted URL is that
\* problem's URL; otherwise the log and the chat stay as they were.
C7_RestoreOnlySameProblem ==
    [][ StorageGetReturns
        => IF popProblemData # NoProblem
              /\ storage.problemUrl = popProblemData.url
           THEN popHistoryPc' = "restored"
           ELSE /\ popHistory' = popHistory
                /\ popChat' = popChat
                /\ (popHistoryPc' = "restored"
                      => popHistory' = <<>> /\ storage.conversationHistory = <<>>) ]_vars

\* C7's case: entries persisted for the problem the popup is on were loaded.
C7_Witness ==
    /\ popup = "open"
    /\ popHistoryPc = "restored"
    /\ popProblemData # NoProblem
    /\ popHistory # <<>>

\* C9: the popup's conversation log and the list it persists never hold more
\* than 50 entries.
C9_PopupLogBounded ==
    /\ Len(popHistory) <= HistoryLimit
    /\ Len(storage.conversationHistory) <= HistoryLimit

\* A step of the popup in which addChatMessage or clearConversation ran.
PopLogWritten ==
    \/ PopTimerFires
    \/ PopClearConversation
    \/ \E text \in Texts : PopSendChatMessage(text) /\ popPending' # popPending
    \/ StorageGetReturns /\ popHistoryPc' = "restored"
                         /\ storage.conversationHistory # <<>>

\* C10 as stated: after every addChatMessage and every clearConversation of
\* the popup the persisted list equals the in-memory log and the persisted
\* URL is the URL of the current problem (none when no problem is loaded).
C10_RecordOverwritten ==
    [][ PopLogWritten
        => /\ storage'.conversationHistory = popHistory'
           /\ storage'.problemUrl = UrlOf(popProblemData') ]_vars

\* C10, amended: after every addChatMessage and every clearConversation of
\* the popup the persisted list equals the in-memory log; the persisted URL
\* is the URL of the current problem when one is loaded; with no problem
\* loaded only clearConversation runs, and it leaves the persisted URL as it
\* was.
C10_RecordFollowsLog ==
    [][ PopLogWritten
        => /\ storage'.historySet
           /\ storage'.conversationHistory = popHistory'
           /\ IF popProblemData' # NoProblem
              THEN storage'.problemUrl = popProblemData'.url
              ELSE /\ storage'.problemUrl = storage.problemUrl
                   /\ popHistory' = <<>> ]_vars

\* C10's case: a Clear with no problem loaded left the URL of an earlier
\* session in the record, beside an emptied list.
C10_Witness ==
    /\ popup = "open"
    /\ popToast = "Conversation cleared"
    /\ popProblemData = NoProblem
    /\ storage.problemUrl \in ProblemUrls
    /\ storage.conversationHistory = <<>>
    /\ popHistory = <<>>


(***************************************************************************)
(* Further claims about the in-page controller.                            *)
(***************************************************************************)
\* C23: after clearConversation the log stays empty and the response area
\* stays hidden until the user makes a new submission, also when a request
\* submitted before the Clear resolves after it.
C23_ClearedUntilNextSubmission ==
    clearedAt = Len(reqs) =>
        /\ conversationHistory = <<>>
        /\ chatContainer = <<>>
        /\ ~responseArea

\* The senders of a log take turns, a user entry first.
Alternates(log) ==
    \A k \in DOMAIN log :
        log[k].sender = IF k % 2 = 1 THEN "user" ELSE "ai"

\* C24: in the conversation log every assistant entry immediately follows the
\* user entry it answers: user and assistant entries take turns, a user entry
\* first, for every interleaving of chat and analysis submissions with the
\* resolutions of their requests.
C24_LogAlternates == Alternates(conversationHistory)


\* C27: once the health probe or a request to the relay has failed, the
\* controller sends nothing more to the relay: backendUrl stays null, every
\* submission accepted from then on starts at the canned responses and is
\* answered by them, whatever the relay would answer.
C27_NoRequestAfterFailure ==
    /\ [](/\ probe = "failed" => backendUrl = Null
          /\ (\E i \in DOMAIN reqs : reqs[i].phase = "fallback")
                 => backendUrl = Null)
    /\ [][/\ backendUrl = Null => backendUrl' = Null
          /\ (backendUrl = Null /\ Len(reqs') > Len(reqs))
                 => reqs'[Len(reqs')].phase = "mock"
          /\ \A i \in DOMAIN reqs :
                reqs[i].phase = "mock" => reqs'[i].phase \in {"mock", "done"}
          /\ \A i \in DOMAIN reqs :
                (reqs[i].phase = "mock" /\ reqs'[i].phase = "done")
                    => conversationHistory'[Len(conversationHistory')].message
                           = MockReply]_vars

\* The probe succeeded, a request to the relay failed, and a submission made
\* after that is being answered from the canned responses.
C27_Witness ==
    /\ probe = "ok"
    /\ backendUrl = Null
    /\ \E i, j \in DOMAIN reqs :
          /\ i < j
          /\ reqs[i].phase = "fallback"
          /\ reqs[j].phase = "mock"

(***************************************************************************)
(* Further claims about the popup controller                               *)
(***************************************************************************)

\* loadConversationHistory took the branch that restores the stored list.
HistoryRestored == popHistoryPc = "get" /\ popHistoryPc' = "restored"

\* C25: restoring the persisted history does not change the log: after the
\* restore the in-memory log and the persisted list both equal the list that
\* was persisted before, and one message is rendered per entry.
C25_RestoreKeepsLog ==
    [][HistoryRestored =>
          /\ popHistory' = storage.conversationHistory
          /\ storage'.conversationHistory = storage.conversationHistory
          /\ Len(popChat') = Len(popChat) + Len(storage.conversationHistory)]_vars

\* chrome.storage.local.get resolves in an open popup whose tab shows the
\* problem the stored record belongs to, and the record holds a history.
StoredForThisTab ==
    /\ popup = "open"
    /\ popHistoryPc = "get"
    /\ popup' = "open"
    /\ popHistoryPc' # "get"
    /\ tabUrl \in ProblemUrls
    /\ storage.problemUrl = tabUrl
    /\ storage.historySet
    /\ storage.conversationHistory # <<>>

\* C26: a popup opened on the problem whose URL is stored restores the
\* history, whichever of loadProblemData and loadConversationHistory
\* completes first.
C26_RestoredInEveryOrder ==
    [][StoredForThisTab => popHistoryPc' = "restored"]_vars

(***************************************************************************)
(* Code detection: getUserCode and looksLikeCode of src/content.js         *)
(***************************************************************************)
\* The characters \w matches, for the texts used.
WordChars ==
    { "a", "b", "c", "d", "e", "f", "g", "h", "i", "j", "k", "l", "m", "n",
      "o", "p", "q", "r", "s", "t", "u", "v", "w", "x", "y", "z", "_" }
    \cup DigitChars

\* pattern.test(text) for the patterns keyword\s+\w+ ("word"), keyword\s+
\* ("space") and keyword\s*\( ("paren"): the keyword anywhere in the text,
\* the white space after it, and what follows the white space.
KeywordTest(text, keyword, follow) ==
    \E p \in 1..Len(text) :
       LET after == p + Len(keyword)
           q == SkipIn(text, after, WhiteSpace)
       IN /\ after - 1 <= Len(text)
          /\ SubSeq(text, p, after - 1) = keyword
          /\ CASE follow = "word"  -> q > after /\ q <= Len(text) /\ text[q] \in WordChars
               [] follow = "space" -> q > after
               [] follow = "paren" -> q <= Len(text) /\ text[q] = "("

\* codePatterns
CodePatterns ==
    << [keyword |-> <<"d", "e", "f">>, follow |-> "word"],
       [keyword |-> <<"f", "u", "n", "c", "t", "i", "o", "n">>, follow |-> "word"],
       [keyword |-> <<"c", "l", "a", "s", "s">>, follow |-> "word"],
       [keyword |-> <<"p", "u", "b", "l", "i", "c">>, follow |-> "word"],
       [keyword |-> <<"v", "a", "r">>, follow |-> "word"],
       [keyword |-> <<"l", "e", "t">>, follow |-> "word"],
       [keyword |-> <<"c", "o", "n", "s", "t">>, follow |-> "word"],
       [keyword |-> <<"r", "e", "t", "u", "r", "n">>, follow |-> "space"],
       [keyword |-> <<"i", "f">>, follow |-> "paren"],
       [keyword |-> <<"f", "o", "r">>, follow |-> "paren"],
       [keyword |-> <<"w", "h", "i", "l", "e">>, follow |-> "paren"] >>

\* content.js:259  text.length > 20
CodeMinLength == 20

\* A variant of looksLikeCode without the length test.
LooksLikeCodeOfAnyLength(text) ==
    \E k \in DOMAIN CodePatterns :
       KeywordTest(text, CodePatterns[k].keyword, CodePatterns[k].follow)

\* looksLikeCode(text)
LooksLikeCode(text) ==
    /\ \E k \in DOMAIN CodePatterns :
          KeywordTest(text, CodePatterns[k].keyword, CodePatterns[k].follow)
    /\ Len(text) > CodeMinLength

\* this.codeSelectors
CodeSelectors ==
    << Selector("textarea", "*", "class=monaco-editor"),
       Selector("*", "class=view-lines", "class=monaco-editor"),
       Selector("*", "class=CodeMirror-code", "*"),
       Selector("textarea", "*", "class=CodeMirror"),
       Selector("*", "class=ace_text-input", "*"),
       Selector("*", "class=ace_content", "*"),
       Selector("*", "data-key=code-input", "*"),
       Selector("textarea", "autocomplete=off", "*"),
       Selector("textarea", "*", "class=editor") >>

\* What getUserCode returns when nothing is found and nothing was cached, and
\* what its catch block returns.
NoCodeDetected == <<"/", "/", " ", "N", "o", " ", "c", "o", "d", "e", " ", "d", "e", "t", "e", "c", "t", "e", "d", ".", " ", "P", "l", "e", "a", "s", "e", " ", "e", "n", "s", "u", "r", "e", " ", "y", "o", "u", "r", " ", "c", "o", "d", "e", " ", "i", "s", " ", "i", "n", " ", "t", "h", "e", " ", "L", "e", "e", "t", "C", "o", "d", "e", " ", "e", "d", "i", "t", "o", "r", ".">>
ErrorDetectingCode == <<"/", "/", " ", "E", "r", "r", "o", "r", " ", "d", "e", "t", "e", "c", "t", "i", "n", "g", " ", "c", "o", "d", "e", ".">>

\* An element of the page that may hold code: value is the value of a form
\* control (empty for other elements), text its textContent, lines the
\* .view-line children of a .view-lines element, each the texts of its spans.
CodeElement(tag, attrs, within, value, text) ==
    [tag |-> tag, attrs |-> attrs, within |-> within, value |-> value,
     text |-> text, lines |-> <<>>]

RECURSIVE Concat(_)
Concat(texts) == IF texts = <<>> THEN <<>> ELSE Head(texts) \o Concat(Tail(texts))

\* A .view-lines element inside a .monaco-editor element.
ViewLines(lines) ==
    [tag |-> "div", attrs |-> {"class=view-lines"},
     within |-> {"class=monaco-editor"}, value |-> <<>>,
     text |-> Concat([k \in DOMAIN lines |-> Concat(lines[k])]), lines |-> lines]

\* A .monaco-editor element, an ancestor of the elements that follow it and
\* name it in `within`, up to the next .monaco-editor element.
MonacoEditor == CodeElement("div", {"class=monaco-editor"}, {}, <<>>, <<>>)

\* element.value || element.textContent
ValueOrText(el) == IF el.value # <<>> THEN el.value ELSE el.text

\* Strategy 1: window.monaco.editor.getModels()[0].getValue()
MonacoModelCode(ed) ==
    IF "models" \in DOMAIN ed.monaco
    THEN IF ed.monaco.models # <<>> /\ ~Blank(ed.monaco.models[1])
         THEN Given(ed.monaco.models[1])
         ELSE Missing
    ELSE Missing

\* element.querySelector('.view-lines') of the .monaco-editor element at
\* position k of the page: the first .view-lines element among its descendants.
ViewLinesOf(dom, k) ==
    LET stop == IF \E j \in (k + 1)..Len(dom) : dom[j] = MonacoEditor
                THEN CHOOSE j \in (k + 1)..Len(dom) :
                        /\ dom[j] = MonacoEditor
                        /\ \A i \in (k + 1)..(j - 1) : dom[i] # MonacoEditor
                ELSE Len(dom) + 1
        hits == { j \in (k + 1)..(stop - 1) :
                     /\ "class=view-lines" \in dom[j].attrs
                     /\ "class=monaco-editor" \in dom[j].within }
    IN IF hits = {} THEN NoElement
       ELSE dom[CHOOSE j \in hits : \A i \in hits : j <= i]

\* lines.forEach(line => { spans.forEach(span => code += span.textContent);
\*                         code += '\n' })
RenderedCode(lines) ==
    Concat([k \in DOMAIN lines |-> Concat(lines[k]) \o <<"\n">>])

\* Strategy 2, from the k-th element of the page on.
RECURSIVE MonacoDomCode(_, _)
MonacoDomCode(dom, k) ==
    IF k > Len(dom) THEN Missing
    ELSE IF dom[k] = MonacoEditor /\ ViewLinesOf(dom, k) # NoElement
            /\ ~Blank(RenderedCode(ViewLinesOf(dom, k).lines))
    THEN Given(Trim(RenderedCode(ViewLinesOf(dom, k).lines)))
    ELSE MonacoDomCode(dom, k + 1)

\* Strategy 3, from the k-th selector on.
RECURSIVE SelectorCode(_, _)
SelectorCode(dom, k) ==
    IF k > Len(CodeSelectors) THEN Missing
    ELSE LET element == DocumentQuerySelector(dom, CodeSelectors[k])
         IN IF element # NoElement /\ ~Blank(ValueOrText(element))
            THEN Given(Trim(ValueOrText(element)))
            ELSE SelectorCode(dom, k + 1)

\* Strategy 4, from the k-th element of the page on.
RECURSIVE TextareaCode(_, _)
TextareaCode(dom, k) ==
    IF k > Len(dom) THEN Missing
    ELSE IF dom[k].tag = "textarea" /\ ValueOrText(dom[k]) # <<>>
            /\ LooksLikeCode(ValueOrText(dom[k]))
    THEN Given(ValueOrText(dom[k]))
    ELSE TextareaCode(dom, k + 1)

\* this.userCode || '// No code detected. ...'
CachedOrSentinel(cache) == IF cache # <<>> THEN cache ELSE NoCodeDetected

\* A variant of the cascade that consults the cache before the textareas.
GetUserCodeCacheFirst(ed, cache) ==
    IF "throws" \in DOMAIN ed.monaco THEN ErrorDetectingCode
    ELSE IF MonacoModelCode(ed) # Missing THEN MonacoModelCode(ed).given
    ELSE IF MonacoDomCode(ed.dom, 1) # Missing THEN MonacoDomCode(ed.dom, 1).given
    ELSE IF SelectorCode(ed.dom, 1) # Missing THEN SelectorCode(ed.dom, 1).given
    ELSE IF cache # <<>> THEN cache
    ELSE IF TextareaCode(ed.dom, 1) # Missing THEN TextareaCode(ed.dom, 1).given
    ELSE NoCodeDetected

\* getUserCode() on the page ed with this.userCode = cache.  The host page's
\* editor API is foreign code: when a call into it throws, the catch block
\* returns the error text.
GetUserCode(ed, cache) ==
    IF "throws" \in DOMAIN ed.monaco THEN ErrorDetectingCode
    ELSE IF MonacoModelCode(ed) # Missing THEN MonacoModelCode(ed).given
    ELSE IF MonacoDomCode(ed.dom, 1) # Missing THEN MonacoDomCode(ed.dom, 1).given
    ELSE IF SelectorCode(ed.dom, 1) # Missing THEN SelectorCode(ed.dom, 1).given
    ELSE IF TextareaCode(ed.dom, 1) # Missing THEN TextareaCode(ed.dom, 1).given
    ELSE CachedOrSentinel(cache)

\* ---- the pages getUserCode is run on ----
\* A text of more than 20 characters that matches a code pattern, one of
\* exactly 20 characters that does, one of more than 20 that matches none,
\* and a short one that matches.
LongCode == <<"r", "e", "t", "u", "r", "n", " ", "a", " ", "+", " ", "b", ";", " ", "/", "/", " ", "s", "u", "m">> \o <<"\n">> \o <<"}">>
TwentyCode == <<"r", "e", "t", "u", "r", "n", " ", "a", "a", "a", "a", "a", "a", "a", "a", "a", "a", "a", "a", "a">>
LongProse == <<"n", "o", "t", "e", "s", " ", "a", "b", "o", "u", "t", " ", "t", "h", "e", " ", "t", "a", "s", "k", " ", "x">>
ShortCode == <<"i", "f", " ", "(", "x", ")">>
OldCode == <<"o", "l", "d", "(", ")">>

\* What window.monaco may be: absent, an API with no model, with a blank
\* first model, with a first model that has text around white space, and an
\* API whose call throws.
MonacoStates ==
    { [absent |-> TRUE], [models |-> <<>>], [models |-> << <<" ">> >>],
      [models |-> << <<" ", "m", " ">>, <<"n">> >>], [throws |-> TRUE] }

\* The elements a page may hold.
CodeElements ==
    { MonacoEditor,
      ViewLines(<< << <<"a">>, <<"b">> >>, << <<"c">> >> >>),
      ViewLines(<< << <<" ">> >> >>),
      CodeElement("textarea", {}, {"class=monaco-editor"}, <<>>, <<>>),
      CodeElement("div", {"class=CodeMirror-code"}, {}, <<>>, <<" ", "x", " ">>),
      CodeElement("textarea", {"autocomplete=off"}, {}, ShortCode, <<>>),
      CodeElement("textarea", {}, {}, LongCode, <<>>),
      CodeElement("textarea", {}, {}, TwentyCode, <<>>),
      CodeElement("textarea", {}, {}, <<>>, LongProse) }

\* Elements of a page that may hold code.
MaxCodeElements == 3

Editors ==
    { [monaco |-> m, dom |-> d] :
        m \in MonacoStates, d \in SeqsUpTo(CodeElements, MaxCodeElements) }

\* The content script set up in a loaded document: one extractor with its
\* message listener, its mutation observer and its coach button.
SetUpWorld ==
    [readyState |-> "complete", declared |-> TRUE, injections |-> 1,
     extractors |-> 1, waiting |-> 0, listeners |-> 1, observers |-> 1,
     buttons |-> 1]

\* The call getUserCode() made now, with what it returns.
Detection ==
    [editor |-> editor, cache |-> userCode, code |-> GetUserCode(editor, userCode)]

DetectFrame ==
    UNCHANGED <<pageVars, logCalls, storage, popVars, relayVars, scrapeVars,
                alarmVars, world, editor, codeInput, popCodeInput>>

\* The callback of this.codeObserver.
CodeObserverFires ==
    /\ DetectFrame
    /\ world.observers > 0
    /\ lastDetection' = Detection
    /\ userCode' = IF Detection.code # userCode THEN Detection.code ELSE userCode

\* The message listener answering { action: 'getCurrentCode' }.
GetCurrentCode ==
    /\ DetectFrame
    /\ world.listeners > 0
    /\ lastDetection' = Detection
    /\ UNCHANGED userCode

DetectInit ==
    /\ ExtensionInit
    /\ RelayIdle
    /\ ScrapeIdle
    /\ world = SetUpWorld
    /\ editor \in Editors
    /\ userCode \in { <<>>, OldCode }
    /\ lastDetection = NoDetection
    /\ codeInput = <<>>
    /\ popCodeInput = <<>>
    /\ clock = 0
    /\ savedAt = 0

DetectNext == CodeObserverFires \/ GetCurrentCode

DetectSpec == DetectInit /\ [][DetectNext]_vars

\* The content of the first textarea of the page that has more than 20
\* characters and matches a code pattern.
RECURSIVE FirstCodeTextarea(_)
FirstCodeTextarea(dom) ==
    IF dom = <<>> THEN Missing
    ELSE IF Head(dom).tag = "textarea"
            /\ Len(ValueOrText(Head(dom))) > CodeMinLength
            /\ LooksLikeCodeOfAnyLength(ValueOrText(Head(dom)))
    THEN Given(ValueOrText(Head(dom)))
    ELSE FirstCodeTextarea(Tail(dom))

\* The results of the four strategies on a page, in their order.
Strategies(ed) ==
    << MonacoModelCode(ed), MonacoDomCode(ed.dom, 1), SelectorCode(ed.dom, 1),
       FirstCodeTextarea(ed.dom) >>

MaxInjections == 3

\* A variant of the evaluation in which a second evaluation of the script's
\* top-level `class LeetCodeExtractor` and `const dsaCoachExtractor` is no
\* error.
NeverRedeclares(w) == FALSE

\* content.js is evaluated in a script context that already holds its
\* top-level class and const declarations: the evaluation ends with
\* "Identifier 'LeetCodeExtractor' has already been declared" before any
\* statement runs.
Redeclares(w) == w.declared

\* setupExtractor() of one extractor, on the world w: the message listener
\* added, the observer created, the button replaced.  (extractProblemData and
\* the initial code detection are in the actions.)
SetupExtractor(w) ==
    [w EXCEPT !.listeners = @ + 1, !.observers = @ + 1, !.buttons = 1]

RECURSIVE SetupExtractors(_, _)
SetupExtractors(w, n) ==
    IF n = 0 THEN w ELSE SetupExtractors(SetupExtractor(w), n - 1)

\* What a step of the content script leaves alone.
ScriptFrame ==
    UNCHANGED <<backendUrl, probe, disabled, reqs, conversationHistory,
                chatContainer, responseArea, complexityInfo, appended,
                clearedAt, logCalls, storage, relayVars, document,
                lastDetection, alarmVars>>

\* The pages of the life cycle: no editor, an editor API with code, an API
\* whose call throws, rendered lines, and a code-like textarea.
LifeCycleEditors ==
    { NoEditor,
      [monaco |-> [models |-> << <<" ", "m", " ">> >>], dom |-> <<>>],
      [monaco |-> [throws |-> TRUE], dom |-> <<>>],
      [monaco |-> [absent |-> TRUE],
       dom |-> << MonacoEditor, ViewLines(<< << <<"a">>, <<"b">> >>, << <<"c">> >> >>) >>],
      [monaco |-> [absent |-> TRUE],
       dom |-> << CodeElement("textarea", {}, {}, LongCode, <<>>) >>] }

\* The tab loads a new document: the old one, with everything the content
\* script put into it, is gone (destroy() ran on beforeunload).
Navigate(ed) ==
    /\ ScriptFrame
    /\ UNCHANGED <<popVars, popCodeInput>>
    /\ world' = FreshWorld("loading")
    /\ editor' = ed
    /\ userCode' = <<>>
    /\ codeInput' = <<>>
    /\ panel' = "none"
    /\ toast' = Null
    /\ pageProblemData' = [null |-> TRUE]
    /\ scrapePc' = "idle"

\* DOMContentLoaded: the extractors that waited for it run setupExtractor.
DocumentLoads ==
    /\ ScriptFrame
    /\ UNCHANGED <<popVars, popCodeInput, editor, codeInput, panel, toast>>
    /\ world.readyState = "loading"
    /\ world' = [SetupExtractors(world, world.waiting)
                   EXCEPT !.readyState = "complete", !.waiting = 0]
    /\ IF world.waiting > 0
       THEN /\ pageProblemData' = ScrapedProblem(document)
            /\ scrapePc' = "extracted"
            /\ userCode' = GetUserCode(editor, <<>>)
       ELSE UNCHANGED <<pageProblemData, scrapePc, userCode>>

\* The onUpdated listener of background.js: chrome.scripting.executeScript
\* evaluates content.js in the tab; the rejection is ignored.
InjectContentScript ==
    /\ ScriptFrame
    /\ UNCHANGED <<popVars, popCodeInput, editor, codeInput, panel, toast>>
    /\ world.injections < MaxInjections
    /\ IF Redeclares(world)
       THEN /\ world' = [world EXCEPT !.injections = @ + 1]
            /\ UNCHANGED <<pageProblemData, scrapePc, userCode>>
       ELSE LET made == [world EXCEPT !.injections = @ + 1, !.declared = TRUE,
                                      !.extractors = @ + 1]
            IN IF world.readyState = "loading"
               THEN /\ world' = [made EXCEPT !.waiting = @ + 1]
                    /\ UNCHANGED <<pageProblemData, scrapePc, userCode>>
               ELSE /\ world' = SetupExtractor(made)
                    /\ pageProblemData' = ScrapedProblem(document)
                    /\ scrapePc' = "extracted"
                    /\ userCode' = GetUserCode(editor, <<>>)

\* The host page changes what it shows as code; the mutation observer, if
\* one is connected, runs its callback before anything else happens.
EditorChanges(ed) ==
    /\ ScriptFrame
    /\ UNCHANGED <<popVars, popCodeInput, world, codeInput, panel, toast,
                   pageProblemData, scrapePc>>
    /\ ed # editor
    /\ editor' = ed
    /\ userCode' = IF world.observers > 0 THEN GetUserCode(ed, userCode)
                   ELSE userCode

\* currentCode.includes('No code detected')
NoCodeNeedle == <<"N", "o", " ", "c", "o", "d", "e", " ", "d", "e", "t", "e", "c", "t", "e", "d">>

\* autoDetectCode() of the in-page controller: the value of #dsa-code-input
\* and the notice it leaves.
AutoDetect(currentCode, input) ==
    IF currentCode # <<>> /\ ~Includes(currentCode, NoCodeNeedle)
    THEN [value |-> currentCode, toast |-> "Code auto-detected!"]
    ELSE [value |-> input, toast |-> "No code detected. Please paste manually."]

\* A variant of autoDetectCode of the popup that refuses both placeholders.
PopAutoDetectRefusing(userCodeSent, input) ==
    IF userCodeSent # <<>> /\ userCodeSent \notin {NoCodeDetected, ErrorDetectingCode}
    THEN [value |-> userCodeSent, toast |-> "Code auto-detected from LeetCode editor"]
    ELSE [value |-> input, toast |-> "No code detected. Please paste your code manually."]

\* autoDetectCode() of the popup, given response.userCode.
PopAutoDetect(userCodeSent, input) ==
    IF userCodeSent # <<>>
    THEN [value |-> userCodeSent, toast |-> "Code auto-detected from LeetCode editor"]
    ELSE [value |-> input, toast |-> "No code detected. Please paste your code manually."]

\* The floating button clicked while no panel exists: createCoachPanel with
\* the page's editor in view, ending with autoDetectCode().
ToggleCoachPanel ==
    /\ ScriptFrame
    /\ UNCHANGED <<popVars, popCodeInput, world, editor, userCode,
                   pageProblemData, scrapePc>>
    /\ world.buttons > 0
    /\ panel = "none"
    /\ panel' = "shown"
    /\ codeInput' = AutoDetect(GetUserCode(editor, userCode), <<>>).value
    /\ toast' = AutoDetect(GetUserCode(editor, userCode), <<>>).toast

\* #dsa-auto-detect clicked.
AutoDetectCode ==
    /\ ScriptFrame
    /\ UNCHANGED <<popVars, popCodeInput, world, editor, userCode, panel,
                   pageProblemData, scrapePc>>
    /\ panel = "shown"
    /\ codeInput' = AutoDetect(GetUserCode(editor, userCode), codeInput).value
    /\ toast' = AutoDetect(GetUserCode(editor, userCode), codeInput).toast

\* #autoDetectCode of the popup clicked: chrome.tabs.query, then
\* chrome.tabs.sendMessage({action: 'getCurrentCode'}), which a listener of
\* the tab answers with getUserCode() and which rejects when the tab has no
\* listener.
PopAutoDetectCode ==
    /\ ScriptFrame
    /\ UNCHANGED <<world, editor, userCode, codeInput, panel, toast,
                   pageProblemData, scrapePc>>
    /\ popup = "open"
    /\ IF tabUrl \in ProblemUrls /\ world.listeners > 0
       THEN /\ popCodeInput' = PopAutoDetect(GetUserCode(editor, userCode),
                                             popCodeInput).value
            /\ popToast' = PopAutoDetect(GetUserCode(editor, userCode),
                                         popCodeInput).toast
       ELSE /\ popToast' = "Error detecting code. Please paste manually."
            /\ UNCHANGED popCodeInput
    /\ UNCHANGED <<popup, tabUrl, popProblemData, popProblemPc, popHistoryPc,
                   popHistory, popChat, popChatInput, popDisabled, popPending,
                   popAccepted>>

ContentInit ==
    /\ ExtensionInit
    /\ RelayIdle
    /\ ScrapeIdle
    /\ world = FreshWorld("loading")
    /\ editor \in LifeCycleEditors
    /\ userCode = <<>>
    /\ lastDetection = NoDetection
    /\ codeInput = <<>>
    /\ popCodeInput = <<>>
    /\ clock = 0
    /\ savedAt = 0

ContentNext ==
    \/ \E ed \in LifeCycleEditors : Navigate(ed)
    \/ DocumentLoads
    \/ InjectContentScript
    \/ \E ed \in LifeCycleEditors : EditorChanges(ed)
    \/ ToggleCoachPanel
    \/ AutoDetectCode
    \/ \E url \in TabUrls : PopOpen(url)
    \/ PopAutoDetectCode

ContentSpec == ContentInit /\ [][ContentNext]_vars

Placeholders == { NoCodeDetected, ErrorDetectingCode }

\* autoDetectCode of the panel ran (in createCoachPanel or from its button)
\* and left a trace; autoDetectCode of the popup received its answer.
PanelDetected ==
    panel' = "shown" /\ (toast' # toast \/ codeInput' # codeInput \/ panel = "none")
PopupDetected ==
    /\ popup = "open"
    /\ tabUrl \in ProblemUrls
    /\ world.listeners > 0
    /\ popToast' # popToast \/ popCodeInput' # popCodeInput

\* C28: when getUserCode yields the "no code detected" sentinel or the
\* "error detecting code" text, autoDetectCode of the panel and of the popup
\* leave the code input as it is and show the no-code warning.
C28_NoPlaceholderInInput ==
    [][GetUserCode(editor, userCode) \in Placeholders =>
          /\ PanelDetected =>
                /\ codeInput' = (IF panel = "none" THEN <<>> ELSE codeInput)
                /\ toast' = "No code detected. Please paste manually."
          /\ PopupDetected =>
                /\ popCodeInput' = popCodeInput
                /\ popToast' = "No code detected. Please paste your code manually."]_vars

(***************************************************************************)
(* A further claim about the relay's extractComplexity                     *)
(***************************************************************************)
\* The O(...) inside text[from..to-1] that begins first.
ONotationWithin(text, from, to) ==
    LET q == Least({ q \in from..(to - 1) :
                       ONotationAt(text, q) # 0 /\ ONotationAt(text, q) <= to })
    IN SubSeq(text, q, ONotationAt(text, q) - 1)

\* The patterns of the word that match somewhere in the text.
Matching(text, what) ==
    { k \in 1..3 : MatchStarts(text, ComplexityPatterns(what)[k]) # {} }

\* The O(...) of the earliest match of pattern k of the word.
ONotationOf(text, what, k) ==
    LET pattern == ComplexityPatterns(what)[k]
        p == Least(MatchStarts(text, pattern))
    IN ONotationWithin(text, p, MatchAt(text, p, pattern))

\* What the first-listed matching pattern's earliest match gives.
ByListedOrder(text, what) ==
    IF Matching(text, what) = {} THEN Sentinel
    ELSE ONotationOf(text, what, Least(Matching(text, what)))

\* C29: for time and for space, extractComplexity uses the first of the three
\* patterns, in the order listed, that matches anywhere in the text, and that
\* pattern's earliest match; a later-listed pattern's match is not used when
\* an earlier-listed pattern matches, wherever the matches are.
C29_ListedOrderDecides ==
    RelayAnswered =>
        /\ RelayAnswer.complexity.time = ByListedOrder(aiResponse, WordTime)
        /\ RelayAnswer.complexity.space = ByListedOrder(aiResponse, WordSpace)

\* An answer was processed in which a later-listed time pattern matches
\* before an earlier-listed one does and holds another O(...), and the
\* earlier-listed pattern's O(...) was returned.
C29_Witness ==
    /\ RelayAnswered
    /\ \E j, k \in Matching(aiResponse, WordTime) :
          /\ j < k
          /\ j = Least(Matching(aiResponse, WordTime))
          /\ Least(MatchStarts(aiResponse, ComplexityPatterns(WordTime)[k]))
                < Least(MatchStarts(aiResponse, ComplexityPatterns(WordTime)[j]))
          /\ ONotationOf(aiResponse, WordTime, k) # ONotationOf(aiResponse, WordTime, j)
          /\ RelayAnswer.complexity.time = ONotationOf(aiResponse, WordTime, j)

(***************************************************************************)
(* The cleanupStorage alarm of src/background.js                           *)
(***************************************************************************)
\* Days the clock runs.
MaxDays == 9

\* background.js:42  Date.now() - (7 * 24 * 60 * 60 * 1000), in days
CleanupAge == 7

\* data[name] for an array: its length, and undefined for a name that is
\* neither "length" nor an index.
ArrayProperty(array, name) ==
    IF name = "length" THEN Len(array) ELSE Undefined

\* The keys of chrome.storage.local that include 'conversationHistory'.
HistoryKeys(st) == IF st.historySet THEN {"conversationHistory"} ELSE {}

AlarmFrame ==
    UNCHANGED <<pageVars, logCalls, popVars, relayVars, scrapeVars, scriptVars>>

\* A day passes.
Tick ==
    /\ AlarmFrame
    /\ clock < MaxDays
    /\ clock' = clock + 1
    /\ UNCHANGED <<storage, savedAt>>

\* The onAlarm listener for 'cleanupStorage': every key that includes
\* 'conversationHistory' and whose value has a timestamp before the cutoff
\* is removed.
CleanupStorageAlarm ==
    /\ AlarmFrame
    /\ LET cutoffTime == clock - CleanupAge
           removed == { key \in HistoryKeys(storage) :
                          LET data == storage.conversationHistory
                          IN /\ ArrayProperty(data, "timestamp") # Undefined
                             /\ ArrayProperty(data, "timestamp") < cutoffTime }
       IN storage' = IF removed = {} THEN storage
                     ELSE [storage EXCEPT !.historySet = FALSE,
                                          !.conversationHistory = <<>>]
    /\ UNCHANGED <<clock, savedAt>>

\* The logs the popup saves.
SavedLogs ==
    { <<>>,
      LeftByPopup.conversationHistory,
      << [message |-> <<"a">>, sender |-> "user", complexity |-> NullComplexity] >> }

\* saveConversationHistory() of the popup, called with the log as it is and
\* the problem of the tab.
PopupSaves(history, problemData) ==
    /\ AlarmFrame
    /\ storage' = SaveConversationHistory(storage, history, problemData)
    /\ savedAt' = clock
    /\ UNCHANGED clock

CleanupNext ==
    \/ Tick
    \/ CleanupStorageAlarm
    \/ \E history \in SavedLogs :
          \E problemData \in { NoProblem } \cup { [url |-> u] : u \in ProblemUrls } :
             PopupSaves(history, problemData)

\* The days pass and the alarm fires every hour.
CleanupSpec ==
    /\ Init
    /\ [][CleanupNext]_vars
    /\ WF_vars(Tick)
    /\ WF_vars(CleanupStorageAlarm)

\* A history is stored that was persisted more than 7 days ago.
OldHistoryStored == storage.historySet /\ clock - savedAt > CleanupAge

\* C30: a conversation history persisted more than 7 days ago is eventually
\* removed from storage by the cleanupStorage alarm, and one persisted less
\* than 7 days ago is never removed by it.
C30_OldHistoryRemoved ==
    /\ OldHistoryStored ~> ~OldHistoryStored
    /\ [][(storage.historySet /\ clock - savedAt < CleanupAge /\ savedAt' = savedAt)
             => storage'.historySet]_vars


====
